---- MODULE Spec2Model ----
(***************************************************************************)
(* Financial time-series analytics engine of depot-dashboard:              *)
(*   src/analysis/ttm.py      TTMEngine                                     *)
(*   src/analysis/metrics.py  MetricsEngine (hybrid valuation merge)        *)
(*   src/analysis/fx.py       FXEngine                                      *)
(*                                                                         *)
(* Tables (polars DataFrames) are records [status, cols, rows]: cols is    *)
(* the set of column names, rows a sequence of functions from cols to      *)
(* values.  status is "ok" for a table, "none" for Python's None and       *)
(* "raised" for a call that ended in an exception.                         *)
(* A nullable number is <<>> (null) or a rational <<n, d>>; d = 0 encodes  *)
(* the non-finite floats (<<1,0>> inf, <<-1,0>> -inf, <<0,0>> NaN).        *)
(* A nullable date or integer is <<>> or <<v>>.  Key dates that the        *)
(* inputs always carry (date, report_date) are plain day numbers.          *)
(***************************************************************************)
EXTENDS Integers, Sequences, FiniteSets, TLC

VARIABLES
    pc,          \* which engine call the behaviour is about and whether it ran
    ttm_in,      \* df_quarterly handed to TTMEngine.calculate_ttm_history
    ttm_out,     \* its result
    val_in,      \* (df_prices, df_annual, df_quarterly) of calculate_valuation_metrics
    val_out,     \* its result
    target_currency, \* FXEngine.target_currency
    fx_rates,    \* FXEngine.fx_rates  (currency -> rate series)
    fx_call,     \* the last FXEngine call and its arguments
    fx_out,      \* the value that call returned
    pf_cfg,      \* the keyword arguments Portfolio(...) is constructed from
    portfolio,   \* the Portfolio object, once constructed
    pf_prices,   \* df_prices handed to calculate_portfolio_history
    pf_fx,       \* its fx_engine argument: None or an FXEngine
    history,     \* its result
    fund_in,     \* df handed to calculate_fundamental_metrics
    fund_out,    \* its result
    fair_in,     \* df_prices handed to calculate_fair_value_history
    fair_out,    \* its result
    ncalls,      \* session: number of engine calls made so far
    seen,        \* session: every call made so far with the result it returned
    files,       \* ETL: the stored price file of every ticker
    etl_queue,   \* ETL: the tickers run_price_update has still to process
    requested    \* ETL: the last fetch: ticker, start date asked for, outcome

vars == <<pc, ttm_in, ttm_out, val_in, val_out, target_currency, fx_rates, fx_call, fx_out,
          pf_cfg, portfolio, pf_prices, pf_fx, history, fund_in, fund_out,
          fair_in, fair_out,
          ncalls, seen,
          files, etl_queue, requested>>

-----------------------------------------------------------------------------
(* Values *)

NULL == <<>>
NULLSTR == "<null>"

Abs(n) == IF n < 0 THEN 0 - n ELSE n

RECURSIVE GCD(_, _)
GCD(a, b) == IF b = 0 THEN a ELSE GCD(b, a % b)

Sign(n) == IF n > 0 THEN 1 ELSE IF n < 0 THEN 0 - 1 ELSE 0

\* canonical form of the float n/d
Rat(n, d) ==
    IF d = 0 THEN <<Sign(n), 0>>
    ELSE LET g == GCD(Abs(n), Abs(d))
             s == IF d < 0 THEN 0 - 1 ELSE 1
         IN  <<(s * n) \div g, (s * d) \div g>>

Num(n) == <<n, 1>>

IsFinite(x) == x # NULL /\ x[2] # 0

\* polars float arithmetic: null propagates, x/0 is +-inf, 0/0 is NaN
RatAdd(x, y) ==
    IF x = NULL \/ y = NULL THEN NULL
    ELSE IF x[2] = 0 \/ y[2] = 0
         THEN (IF x[2] = 0 /\ y[2] = 0 /\ x # y THEN <<0, 0>>
               ELSE IF x[2] = 0 THEN x ELSE y)
    ELSE Rat(x[1] * y[2] + y[1] * x[2], x[2] * y[2])

RatDiv(x, y) ==
    IF x = NULL \/ y = NULL THEN NULL
    ELSE IF x[2] = 0 /\ y[2] = 0 THEN <<0, 0>>
    ELSE IF x[2] = 0 THEN <<x[1] * (IF y[1] < 0 THEN 0 - 1 ELSE 1), 0>>
    ELSE IF y[2] = 0 THEN (IF y[1] = 0 THEN <<0, 0>> ELSE <<0, 1>>)
    ELSE Rat(x[1] * y[2], x[2] * y[1])

RatMul(x, y) ==
    IF x = NULL \/ y = NULL THEN NULL
    ELSE IF x[2] = 0 \/ y[2] = 0 THEN <<Sign(x[1]) * Sign(y[1]), 0>>
    ELSE Rat(x[1] * y[1], x[2] * y[2])

\* x < y and x <= y on finite values
RatLt(x, y) == x[1] * y[2] < y[1] * x[2]
RatLeq(x, y) == x[1] * y[2] <= y[1] * x[2]

\* pl.coalesce: the first non-null of a sequence of values
RECURSIVE Coalesce(_)
Coalesce(vs) ==
    IF vs = <<>> THEN NULL
    ELSE IF Head(vs) # NULL THEN Head(vs) ELSE Coalesce(Tail(vs))

-----------------------------------------------------------------------------
(* Tables *)

Frame(cols, rows) == [status |-> "ok", cols |-> cols, rows |-> rows]
EmptyFrame == Frame({}, <<>>)                  \* pl.DataFrame()
None == [status |-> "none", cols |-> {}, rows |-> <<>>]
Raised == [status |-> "raised", cols |-> {}, rows |-> <<>>]

is_empty(df) == Len(df.rows) = 0

RowsOf(df) == {df.rows[i] : i \in 1..Len(df.rows)}

RECURSIVE SortKeyed(_)
SortKeyed(s) ==
    IF Len(s) <= 1 THEN s
    ELSE LET rest == SortKeyed(SubSeq(s, 1, Len(s) - 1))
             p == s[Len(s)]
             k == Cardinality({i \in 1..Len(rest) : rest[i][1] <= p[1]})
         IN  SubSeq(rest, 1, k) \o <<p>> \o SubSeq(rest, k + 1, Len(rest))

\* DataFrame.sort on an integer key; rows with equal keys keep their order
SortBy(rows, Key(_)) ==
    LET keyed == [i \in 1..Len(rows) |-> <<Key(rows[i]), rows[i]>>]
        sorted == SortKeyed(keyed)
    IN  [i \in 1..Len(rows) |-> sorted[i][2]]

Tickers == {"A", "B.L"}
TickerRank == [t \in Tickers |-> IF t = "A" THEN 0 ELSE 1]

\* sort(["ticker", <date column>])
TickerDateKey(r, datecol) == TickerRank[r["ticker"]] * 100000 + r[datecol]

\* with_columns of one column
WithCol(r, c, v) == [k \in (DOMAIN r) \cup {c} |-> IF k = c THEN v ELSE r[k]]

-----------------------------------------------------------------------------
(* TTMEngine, src/analysis/ttm.py *)

flow_metrics == {"revenue", "gross_profit", "ebit", "net_income",
                 "operating_cash_flow", "capital_expenditure", "free_cash_flow",
                 "interest_expense", "cash_dividends_paid", "diluted_eps"}

point_metrics == {"total_assets", "total_current_liabilities", "total_equity",
                  "long_term_debt", "short_term_debt", "total_debt",
                  "cash_and_equivalents", "basic_average_shares",
                  "diluted_average_shares"}

WindowDays == 395
TailLen == 4
MinRecords == 4

\* the alias f"{col}_ttm"
TtmName(c) == c \o "_ttm"

\* tail(4) left out: the whole window
TailN_All(s, n) == s

\* Series.tail(n)
TailN(s, n) == IF Len(s) <= n THEN s ELSE SubSeq(s, Len(s) - n + 1, Len(s))

\* Series.sum(): nulls are skipped, the sum of no value is 0
RECURSIVE SumSkipNull(_)
SumSkipNull(vs) ==
    IF vs = <<>> THEN Num(0)
    ELSE IF Head(vs) = NULL THEN SumSkipNull(Tail(vs))
    ELSE RatAdd(Head(vs), SumSkipNull(Tail(vs)))

\* drop_nulls().last(): the last value that is not null
RECURSIVE LastOf_NonNull(_)
LastOf_NonNull(vs) ==
    IF vs = <<>> THEN NULL
    ELSE IF vs[Len(vs)] # NULL THEN vs[Len(vs)]
    ELSE LastOf_NonNull(SubSeq(vs, 1, Len(vs) - 1))

\* Series.last(): the last value, null or not
LastOf(vs) == IF vs = <<>> THEN NULL ELSE vs[Len(vs)]

Column(rows, c) == [i \in 1..Len(rows) |-> rows[i][c]]

\* filter(revenue.is_not_null() | net_income.is_not_null())
HasPnL(r) == r["revenue"] # NULL \/ r["net_income"] # NULL

\* closed="both": the window [t - 395, t]
RollingWindow_ClosedBoth(rows, r) ==
    SelectSeq(rows, LAMBDA q : /\ q["ticker"] = r["ticker"]
                               /\ q["report_date"] >= r["report_date"] - WindowDays
                               /\ q["report_date"] <= r["report_date"])

\* rolling(index_column="report_date", period="395d", group_by="ticker",
\*         closed="right"): the rows of r's ticker dated in (t - 395, t]
RollingWindow(rows, r) ==
    SelectSeq(rows, LAMBDA q : /\ q["ticker"] = r["ticker"]
                               /\ q["report_date"] > r["report_date"] - WindowDays
                               /\ q["report_date"] <= r["report_date"])

\* .agg(aggs) for the window of row r
TtmAgg(rows, cols, r) ==
    LET w == RollingWindow(rows, r)
        flows == flow_metrics \cap cols
        points == point_metrics \cap cols
        names == {"ticker", "report_date", "currency", "period_type", "_record_count"}
                 \cup {TtmName(c) : c \in flows \cup points}
    IN  [k \in names |->
            IF k = "ticker" THEN r["ticker"]
            ELSE IF k = "report_date" THEN r["report_date"]
            ELSE IF k = "currency" THEN w[Len(w)]["currency"]
            ELSE IF k = "period_type" THEN w[Len(w)]["period_type"]
            ELSE IF k = "_record_count" THEN Len(w)
            ELSE LET c == CHOOSE c \in flows \cup points : TtmName(c) = k
                 IN  IF c \in flows THEN SumSkipNull(TailN(Column(w, c), TailLen))
                     ELSE LastOf(Column(w, c))]

DropCol(r, c) == [k \in (DOMAIN r) \ {c} |-> r[k]]

TtmCols(cols) ==
    {"ticker", "report_date", "currency", "period_type"}
    \cup {TtmName(c) : c \in (flow_metrics \cup point_metrics) \cap cols}

calculate_ttm_history(df_quarterly) ==
    IF df_quarterly.status = "none" \/ is_empty(df_quarterly) THEN EmptyFrame
    ELSE IF ~ ({"revenue", "net_income"} \subseteq df_quarterly.cols)
         THEN Raised                                     \* filter, ColumnNotFoundError
    ELSE LET df_clean == SelectSeq(df_quarterly.rows, HasPnL)
             cols == df_quarterly.cols
         IN  IF df_clean = <<>> THEN EmptyFrame
             ELSE IF ~ ({"ticker", "report_date"} \subseteq cols)
                  THEN Raised                            \* df_clean['ticker'], sort
             ELSE IF ~ ({"currency", "period_type"} \subseteq cols)
                  THEN EmptyFrame                        \* except Exception
             ELSE LET df_raw == SortBy(df_clean, LAMBDA r : TickerDateKey(r, "report_date"))
                      agg == [i \in 1..Len(df_raw) |-> TtmAgg(df_raw, cols, df_raw[i])]
                      sorted == SortBy(agg, LAMBDA r : TickerDateKey(r, "report_date"))
                      kept == SelectSeq(sorted, LAMBDA r : r["_record_count"] >= MinRecords)
                  IN  Frame(TtmCols(cols),
                            [i \in 1..Len(kept) |-> DropCol(kept[i], "_record_count")])

-----------------------------------------------------------------------------
(* Quarterly inputs *)

MaxQuarters == 5

QuarterDates == {79 * i : i \in 0..MaxQuarters}

QuarterlyCols == {"ticker", "report_date", "period_type", "currency",
                  "revenue", "net_income", "diluted_eps", "free_cash_flow",
                  "diluted_average_shares", "basic_average_shares", "share_issued"}

\* what a quarterly filing of ticker A on a grid date holds: every field, every
\* field but revenue and diluted_average_shares, or the balance sheet only
QuarterKinds == {"absent", "full", "norevenue", "nopnl"}

\* the value a field of the filing of day d holds: distinct powers of two, so
\* that a sum tells which filings went into it
QValue(d) == Num(2 ^ (d \div 79))

QuarterRow(t, d, kind) ==
    [c \in QuarterlyCols |->
        IF c = "ticker" THEN t
        ELSE IF c = "report_date" THEN d
        ELSE IF c = "period_type" THEN "quarterly"
        ELSE IF c = "currency" THEN "USD"
        ELSE IF c = "revenue" THEN (IF kind = "full" THEN QValue(d) ELSE NULL)
        ELSE IF c = "net_income" THEN (IF kind = "nopnl" THEN NULL ELSE QValue(d))
        ELSE IF c = "diluted_average_shares" THEN (IF kind = "norevenue" THEN NULL ELSE QValue(d))
        ELSE IF c = "share_issued" THEN NULL
        ELSE IF c \in flow_metrics THEN (IF kind = "nopnl" THEN NULL ELSE QValue(d))
        ELSE QValue(d)]

\* the filings of ticker B.L: none, or a block dated between those of A
OtherTickerDates == {{}, {40, 119, 198, 277}, {40, 119, 198, 277, 356}}

\* column sets a caller may hand over
QuarterlyColSets == {QuarterlyCols, QuarterlyCols \ {"revenue"},
                     QuarterlyCols \ {"net_income"}, QuarterlyCols \ {"currency"}}

RECURSIVE SetToSeqDesc(_)
SetToSeqDesc(S) ==
    IF S = {} THEN <<>>
    ELSE LET m == CHOOSE x \in S : \A y \in S : y <= x
         IN  <<m>> \o SetToSeqDesc(S \ {m})

Restrict(r, cols) == [c \in cols |-> r[c]]

\* the table: newest filing first, the two tickers one after the other
QuarterlyTable(kinds, other, cols) ==
    LET da == SetToSeqDesc({d \in QuarterDates : kinds[d] # "absent"})
        db == SetToSeqDesc(other)
    IN  Frame(cols,
              [i \in 1..Len(db) |-> Restrict(QuarterRow("B.L", db[i], "full"), cols)]
              \o [i \in 1..Len(da) |-> Restrict(QuarterRow("A", da[i], kinds[da[i]]), cols)])

Idle == [status |-> "idle", cols |-> {}, rows |-> <<>>]
NoRates == << >>
NoCall == [op |-> "none"]

InitTTM ==
    /\ pc = "ttm"
    /\ \E kinds \in [QuarterDates -> QuarterKinds], other \in OtherTickerDates,
          cols \in QuarterlyColSets, none \in BOOLEAN :
          ttm_in = IF none THEN None
                   ELSE QuarterlyTable(kinds, other, cols)
    /\ ttm_out = Idle
    /\ val_in = Idle /\ val_out = Idle
    /\ target_currency = "EUR" /\ fx_rates = NoRates
    /\ fx_call = NoCall /\ fx_out = Idle
    /\ pf_cfg = Idle /\ portfolio = Idle /\ pf_prices = Idle /\ pf_fx = Idle
    /\ history = Idle /\ fund_in = Idle /\ fund_out = Idle
    /\ fair_in = Idle /\ fair_out = Idle
    /\ ncalls = Idle /\ seen = Idle
    /\ files = Idle /\ etl_queue = Idle /\ requested = Idle

CalculateTtmHistory ==
    /\ pc = "ttm"
    /\ ttm_out' = calculate_ttm_history(ttm_in)
    /\ pc' = "ttm_done"
    /\ UNCHANGED <<ttm_in, val_in, val_out, target_currency, fx_rates, fx_call, fx_out,
                 pf_cfg, portfolio, pf_prices, pf_fx, history, fund_in, fund_out,
                   fair_in, fair_out,
                   ncalls, seen,
                   files, etl_queue, requested>>

NextTTM == CalculateTtmHistory

SpecTTM == InitTTM /\ [][NextTTM]_vars

-----------------------------------------------------------------------------
(* FXEngine, src/analysis/fx.py *)

\* the dict, in its iteration order
SupportedCurrencies == <<"USD", "CHF", "GBP", "JPY", "DKK", "SEK">>

SUPPORTED_CURRENCY_TICKER ==
    [c \in {SupportedCurrencies[i] : i \in 1..Len(SupportedCurrencies)} |->
        "EUR" \o c \o "=X"]

\* the target check of lines 38-39 left out
_extract_rates_AnyTarget(target, df_prices) ==
    LET series(c) ==
            LET sel == SelectSeq(df_prices.rows,
                                 LAMBDA r : r["ticker"] = SUPPORTED_CURRENCY_TICKER[c])
                ren == [i \in 1..Len(sel) |->
                           [date |-> sel[i]["date"], rate |-> sel[i]["close"]]]
            IN  SortBy(ren, LAMBDA r : r["date"])
        loaded == {c \in DOMAIN SUPPORTED_CURRENCY_TICKER : series(c) # <<>>}
    IN  [status |-> "ok", rates |-> [c \in loaded |-> series(c)]]

\* _extract_rates: per supported currency the (date, rate) rows of its rate
\* ticker sorted by date, a currency without rows being left out; a table of
\* status "raised" stands for the NotImplementedError
_extract_rates(target, df_prices) ==
    IF target # "EUR" THEN Raised
    ELSE LET series(c) ==
                 LET sel == SelectSeq(df_prices.rows,
                                      LAMBDA r : r["ticker"] = SUPPORTED_CURRENCY_TICKER[c])
                     ren == [i \in 1..Len(sel) |->
                                [date |-> sel[i]["date"], rate |-> sel[i]["close"]]]
                 IN  SortBy(ren, LAMBDA r : r["date"])
             loaded == {c \in DOMAIN SUPPORTED_CURRENCY_TICKER : series(c) # <<>>}
         IN  [status |-> "ok", rates |-> [c \in loaded |-> series(c)]]

\* strategy="forward": the rate of the first row dated on or after d
AsofRate_Forward(df_rate, d) ==
    LET k == Cardinality({i \in 1..Len(df_rate) : df_rate[i]["date"] < d})
    IN  IF k = Len(df_rate) THEN NULL ELSE df_rate[k + 1]["rate"]

\* join_asof(df_rate, on="date", strategy="backward") for one left row: the
\* rate of the last row of the sorted series dated on or before d, else null
AsofRate(df_rate, d) ==
    LET k == Cardinality({i \in 1..Len(df_rate) : df_rate[i]["date"] <= d})
    IN  IF k = 0 THEN NULL ELSE df_rate[k]["rate"]

\* the chunk of one loaded currency (lines 97-110)
ConvertChunk(df_foreign, currency, df_rate, amount_col, source_currency_col, target_col) ==
    LET df_currency == SelectSeq(df_foreign, LAMBDA r : r[source_currency_col] = currency)
        sorted == SortBy(df_currency, LAMBDA r : r["date"])
    IN  [i \in 1..Len(sorted) |->
            WithCol(sorted[i], target_col,
                    RatDiv(sorted[i][amount_col], AsofRate(df_rate, sorted[i]["date"])))]

RECURSIVE ConvertedChunks(_, _, _, _, _, _)
ConvertedChunks(order, rates, df_foreign, amount_col, source_currency_col, target_col) ==
    IF order = <<>> THEN <<>>
    ELSE (IF Head(order) \in DOMAIN rates
          THEN ConvertChunk(df_foreign, Head(order), rates[Head(order)],
                            amount_col, source_currency_col, target_col)
          ELSE <<>>)
         \o ConvertedChunks(Tail(order), rates, df_foreign,
                            amount_col, source_currency_col, target_col)

\* df_home left out of the concat
HomeRows_Dropped(rows, target, amount_col, source_currency_col, target_col) == <<>>

\* df_home (lines 73-75): the rows already in the target currency, their
\* amount copied; a comparison with a null currency is null, and filter
\* drops the row
HomeRows(rows, target, amount_col, source_currency_col, target_col) ==
    LET home == SelectSeq(rows, LAMBDA r : /\ r[source_currency_col] # NULLSTR
                                           /\ r[source_currency_col] = target)
    IN  [i \in 1..Len(home) |-> WithCol(home[i], target_col, home[i][amount_col])]

convert_to_target(target, rates, df, amount_col, source_currency_col) ==
    LET target_col == amount_col \o "_" \o target
        keep(r) == WithCol(r, target_col, r[amount_col])
        df_home == HomeRows(df.rows, target, amount_col, source_currency_col, target_col)
        df_foreign == SelectSeq(df.rows, LAMBDA r : /\ r[source_currency_col] # NULLSTR
                                                    /\ r[source_currency_col] # target)
        foreign_currencies == {df_foreign[i][source_currency_col] : i \in 1..Len(df_foreign)}
        converted == ConvertedChunks(SupportedCurrencies, rates, df_foreign,
                                     amount_col, source_currency_col, target_col)
        unsupported_currencies == {c \in foreign_currencies : c \notin DOMAIN rates}
        unsup == SelectSeq(df_foreign,
                           LAMBDA r : r[source_currency_col] \in unsupported_currencies)
        df_unsupported == [i \in 1..Len(unsup) |-> keep(unsup[i])]
    IN  Frame(df.cols \cup {target_col},
              SortBy(df_home \o converted \o df_unsupported, LAMBDA r : r["date"]))

\* the sort ascending: head(1) is the earliest rate on or before d
LatestRateRow_Earliest(df_rate, d) ==
    LET upto == SelectSeq(df_rate, LAMBDA r : r["date"] <= d)
        asc == SortBy(upto, LAMBDA r : r["date"])
    IN  SubSeq(asc, 1, IF Len(asc) < 1 THEN Len(asc) ELSE 1)

\* filter(date <= d).sort("date", descending=True).head(1)
LatestRateRow(df_rate, d) ==
    LET upto == SelectSeq(df_rate, LAMBDA r : r["date"] <= d)
        desc == SortBy(upto, LAMBDA r : 0 - r["date"])
    IN  SubSeq(desc, 1, IF Len(desc) < 1 THEN Len(desc) ELSE 1)

convert_amount(target, rates, amount, date, source_currency) ==
    IF source_currency = target THEN amount
    ELSE IF source_currency \notin DOMAIN rates THEN amount
    ELSE LET rate_row == LatestRateRow(rates[source_currency], date)
         IN  IF rate_row = <<>> THEN amount
             ELSE RatDiv(amount, rate_row[1]["rate"])

-----------------------------------------------------------------------------
(* FX inputs *)

MaxRateDates == 2
MaxRows == 2

\* days on which a rate ticker may have a close: 1, 32, ...
RateDates == {31 * i - 30 : i \in 1..MaxRateDates}

RateChoices == {NULL, Rat(11, 10), Rat(21, 20)}

\* days of the rows to convert: before every rate, between two, on one, after
RowDates == {0, 15, 32, 40}

RowCurrencies == {"EUR", "USD", "GBP", "XXX", NULLSTR}

PriceCols == {"ticker", "date", "close", "currency"}

PriceRow(t, d, close, cur) ==
    [c \in PriceCols |->
        IF c = "ticker" THEN t ELSE IF c = "date" THEN d
        ELSE IF c = "close" THEN close ELSE cur]

\* the price table the engine is built from: the EURUSD=X closes chosen by
\* usd (none on a day mapped to null), one EURGBP=X close or none, and a
\* stock, newest row first
FxPriceTable(usd, gbp) ==
    LET du == SetToSeqDesc({d \in RateDates : usd[d] # NULL})
    IN  Frame(PriceCols,
              <<PriceRow("A", 40, Num(50), "USD")>>
              \o [i \in 1..Len(du) |-> PriceRow("EURUSD=X", du[i], usd[du[i]], "USD")]
              \o (IF gbp THEN <<PriceRow("EURGBP=X", 15, Rat(4, 5), "GBP")>> ELSE <<>>))

AmountRow(d, cur) == PriceRow("A", d, Num(100), cur)

RowChoices == {AmountRow(d, cur) : d \in RowDates, cur \in RowCurrencies}

RECURSIVE SeqsUpTo(_, _)
SeqsUpTo(S, n) ==
    IF n = 0 THEN {<<>>}
    ELSE LET shorter == SeqsUpTo(S, n - 1)
         IN  shorter \cup {Append(q, x) : q \in {t \in shorter : Len(t) = n - 1}, x \in S}

InitFX ==
    /\ \E target \in {"EUR", "USD"}, usd \in [RateDates -> RateChoices], gbp \in BOOLEAN :
         LET built == _extract_rates(target, FxPriceTable(usd, gbp))
         IN  /\ target_currency = target
             /\ pc = IF built.status = "ok" THEN "fx" ELSE "fx_failed"
             /\ fx_rates = IF built.status = "ok" THEN built.rates ELSE NoRates
    /\ \/ \E rows \in SeqsUpTo(RowChoices, MaxRows) :
            fx_call = [op |-> "convert_to_target", df |-> Frame(PriceCols, rows)]
       \/ \E d \in RowDates, cur \in RowCurrencies \ {NULLSTR} :
            fx_call = [op |-> "convert_amount", amount |-> Num(100),
                       date |-> d, source_currency |-> cur]
    /\ fx_out = Idle
    /\ ttm_in = Idle /\ ttm_out = Idle /\ val_in = Idle /\ val_out = Idle
    /\ pf_cfg = Idle /\ portfolio = Idle /\ pf_prices = Idle /\ pf_fx = Idle
    /\ history = Idle /\ fund_in = Idle /\ fund_out = Idle
    /\ fair_in = Idle /\ fair_out = Idle
    /\ ncalls = Idle /\ seen = Idle
    /\ files = Idle /\ etl_queue = Idle /\ requested = Idle

ConvertToTarget ==
    /\ pc = "fx"
    /\ fx_call.op = "convert_to_target"
    /\ fx_out' = convert_to_target(target_currency, fx_rates, fx_call.df, "close", "currency")
    /\ pc' = "fx_done"
    /\ UNCHANGED <<ttm_in, ttm_out, val_in, val_out, target_currency, fx_rates, fx_call,
                 pf_cfg, portfolio, pf_prices, pf_fx, history, fund_in, fund_out,
                   fair_in, fair_out,
                   ncalls, seen,
                   files, etl_queue, requested>>

ConvertAmount ==
    /\ pc = "fx"
    /\ fx_call.op = "convert_amount"
    /\ fx_out' = [status |-> "ok",
                  value |-> convert_amount(target_currency, fx_rates, fx_call.amount,
                                           fx_call.date, fx_call.source_currency)]
    /\ pc' = "fx_done"
    /\ UNCHANGED <<ttm_in, ttm_out, val_in, val_out, target_currency, fx_rates, fx_call,
                 pf_cfg, portfolio, pf_prices, pf_fx, history, fund_in, fund_out,
                   fair_in, fair_out,
                   ncalls, seen,
                   files, etl_queue, requested>>

NextFX == ConvertToTarget \/ ConvertAmount

SpecFX == InitFX /\ [][NextFX]_vars

-----------------------------------------------------------------------------
(* MetricsEngine, src/analysis/metrics.py *)

\* columns whose name holds "ticker", "currency", "period" or "source"
StringCols == {"ticker", "currency", "period_type", "valuation_source"}

\* _ensure_schema: every missing required column is added as a typed null
_ensure_schema(df_to_check, required_cols) ==
    LET missing_cols == required_cols \ df_to_check.cols
        fill(r) == [c \in df_to_check.cols \cup missing_cols |->
                       IF c \in df_to_check.cols THEN r[c]
                       ELSE IF c \in StringCols THEN NULLSTR ELSE NULL]
    IN  [df_to_check EXCEPT !.cols = df_to_check.cols \cup missing_cols,
                            !.rows = [i \in 1..Len(df_to_check.rows) |->
                                         fill(df_to_check.rows[i])]]

\* str.ends_with(".L")
LseTickers == {"B.L"}

PenceDivisor == 100

\* _pound_fix: the value columns of a GBp row of an LSE ticker are divided by
\* 100; the currency of every GBp row becomes GBP
_pound_fix(df, value_cols) ==
    IF ~ (value_cols \cup {"currency", "ticker"} \subseteq df.cols) THEN Raised
    ELSE LET fix(r) ==
                 [c \in df.cols |->
                     IF c \in value_cols
                     THEN (IF r["currency"] = "GBp" /\ r["ticker"] \in LseTickers
                           THEN RatDiv(r[c], Num(PenceDivisor)) ELSE r[c])
                     ELSE IF c = "currency"
                     THEN (IF r["currency"] = "GBp" THEN "GBP" ELSE r["currency"])
                     ELSE r[c]]
         IN  [df EXCEPT !.rows = [i \in 1..Len(df.rows) |-> fix(df.rows[i])]]

RatAbs(x) == IF x = NULL THEN NULL ELSE <<Abs(x[1]), x[2]>>

AnnualRequired == {"ticker", "report_date", "diluted_eps", "diluted_average_shares",
                   "revenue", "free_cash_flow", "basic_average_shares",
                   "cash_dividends_paid"}

\* q_annual (lines 238-270)
AnnualProjection(df_annual) ==
    IF is_empty(df_annual) THEN EmptyFrame
    ELSE LET df == _ensure_schema(df_annual, AnnualRequired)
             sel(r) == [ticker |-> r["ticker"],
                        report_date |-> r["report_date"],
                        eps_annual |-> r["diluted_eps"],
                        revenue_annual |-> r["revenue"],
                        fcf_annual |-> r["free_cash_flow"],
                        shares_annual |-> Coalesce(<<r["diluted_average_shares"],
                                                     r["basic_average_shares"]>>),
                        dividend_annual |-> RatAbs(r["cash_dividends_paid"])]
         IN  Frame({"ticker", "report_date", "eps_annual", "revenue_annual",
                    "fcf_annual", "shares_annual", "dividend_annual"},
                   SortBy([i \in 1..Len(df.rows) |-> sel(df.rows[i])],
                          LAMBDA r : r["report_date"]))

QuarterlyRequired == {"ticker", "report_date", "diluted_eps", "diluted_average_shares",
                      "revenue", "free_cash_flow", "share_issued"}

\* the columns the select of lines 288-303 names
TtmSelected == {"ticker", "report_date", "net_income_ttm", "diluted_eps_ttm",
                "revenue_ttm", "free_cash_flow_ttm", "share_issued_ttm",
                "diluted_average_shares_ttm", "basic_average_shares_ttm"}

\* q_ttm (lines 272-306); selecting a column the TTM table lacks raises
TtmProjection(df_quarterly) ==
    IF df_quarterly.status = "none" \/ is_empty(df_quarterly) THEN EmptyFrame
    ELSE LET ttm_tmp == calculate_ttm_history(_ensure_schema(df_quarterly, QuarterlyRequired))
             sel(r) == [ticker |-> r["ticker"],
                        report_date |-> r["report_date"],
                        net_income_ttm |-> r["net_income_ttm"],
                        eps_ttm |-> r["diluted_eps_ttm"],
                        revenue_ttm |-> r["revenue_ttm"],
                        fcf_ttm |-> r["free_cash_flow_ttm"],
                        shares_ttm |-> Coalesce(<<r["share_issued_ttm"],
                                                  r["diluted_average_shares_ttm"],
                                                  r["basic_average_shares_ttm"]>>)]
         IN  IF ttm_tmp.status = "raised" THEN Raised
             ELSE IF ~ (TtmSelected \subseteq ttm_tmp.cols) THEN Raised
             ELSE Frame({"ticker", "report_date", "net_income_ttm", "eps_ttm",
                         "revenue_ttm", "fcf_ttm", "shares_ttm"},
                        SortBy([i \in 1..Len(ttm_tmp.rows) |-> sel(ttm_tmp.rows[i])],
                               LAMBDA r : r["report_date"]))

\* the join without by="ticker"
AsofMatch_AnyTicker(right_rows, l) ==
    LET m == SelectSeq(right_rows, LAMBDA q : q["report_date"] <= l["date"])
    IN  IF m = <<>> THEN <<>> ELSE <<m[Len(m)]>>

\* strategy="forward": the first row of the ticker dated on or after the date
AsofMatch_Forward(right_rows, l) ==
    LET m == SelectSeq(right_rows, LAMBDA q : /\ q["ticker"] = l["ticker"]
                                              /\ q["report_date"] >= l["date"])
    IN  IF m = <<>> THEN <<>> ELSE <<m[1]>>

\* join_asof(right, left_on="date", right_on="report_date", by="ticker",
\*           strategy="backward") for one left row: the last row of the sorted
\* right table of the same ticker dated on or before the row's date
AsofMatch(right_rows, l) ==
    LET m == SelectSeq(right_rows, LAMBDA q : /\ q["ticker"] = l["ticker"]
                                              /\ q["report_date"] <= l["date"])
    IN  IF m = <<>> THEN <<>> ELSE <<m[Len(m)]>>

\* the join: the right columns but the by key are appended, a name the left
\* table already has getting the suffix; report_date becomes nullable
JoinAsof(left, right, suffix) ==
    LET rcols == right.cols \ {"ticker"}
        name(c) == IF c \in left.cols THEN c \o suffix ELSE c
        join(l) ==
            LET m == AsofMatch(right.rows, l)
            IN  [k \in left.cols \cup {name(c) : c \in rcols} |->
                    IF k \in left.cols THEN l[k]
                    ELSE LET c == CHOOSE c \in rcols : name(c) = k
                         IN  IF m = <<>> THEN NULL
                             ELSE IF c = "report_date" THEN <<m[1][c]>>
                             ELSE m[1][c]]
    IN  Frame(left.cols \cup {name(c) : c \in rcols},
              [i \in 1..Len(left.rows) |-> join(left.rows[i])])

ExpectedTtmCols == {"eps_ttm", "revenue_ttm", "fcf_ttm", "shares_ttm", "report_date_ttm"}
ExpectedAnnualCols == {"eps_annual", "revenue_annual", "fcf_annual", "shares_annual",
                       "dividend_annual", "report_date"}

\* (date - metric_date).dt.total_days()
LagDays(date, metric_date) == IF metric_date = NULL THEN NULL ELSE <<date - metric_date[1]>>

\* the date of the TTM record alone
report_date_expr_TtmOnly(r) == r["report_date_ttm"]

\* line 347: the date of the joined TTM record, else that of the annual report
report_date_expr(r) == Coalesce(<<r["report_date_ttm"], r["report_date"]>>)

\* the with_columns of lines 345-379 for one row
Enrich(r, cols) ==
    LET eps == Coalesce(<<r["eps_ttm"], r["eps_annual"]>>)
        report_date == report_date_expr(r)
        shares == Coalesce(<<r["shares_ttm"], r["shares_annual"],
                             IF "shares" \in cols THEN r["shares"] ELSE NULL>>)
        rev == Coalesce(<<r["revenue_ttm"], r["revenue_annual"]>>)
        rps == RatDiv(rev, shares)
        fcf_val == Coalesce(<<r["fcf_ttm"], r["fcf_annual"]>>)
        fcfps == RatDiv(fcf_val, shares)
        added == {"pe_ratio", "ps_ratio", "fcf_yield", "div_yield_calc",
                  "valuation_source", "metric_date", "diluted_average_shares",
                  "data_lag_days"}
    IN  [k \in cols \cup added |->
            IF k = "pe_ratio" THEN RatDiv(r["close"], eps)
            ELSE IF k = "ps_ratio" THEN RatDiv(r["close"], rps)
            ELSE IF k = "fcf_yield" THEN RatDiv(fcfps, r["close"])
            ELSE IF k = "div_yield_calc"
                 THEN RatDiv(RatDiv(r["dividend_annual"], shares), r["close"])
            ELSE IF k = "valuation_source"
                 THEN (IF r["eps_ttm"] # NULL THEN "TTM"
                       ELSE IF r["eps_annual"] # NULL THEN "Annual" ELSE "N/A")
            ELSE IF k = "metric_date" THEN report_date
            ELSE IF k = "diluted_average_shares" THEN shares
            ELSE IF k = "data_lag_days" THEN LagDays(r["date"], report_date)
            ELSE r[k]]

EnrichedCols(cols) ==
    cols \cup {"pe_ratio", "ps_ratio", "fcf_yield", "div_yield_calc", "valuation_source",
               "metric_date", "diluted_average_shares", "data_lag_days"}

YearDays == 365

\* lines 382-404: the dividends of the ticker in the year up to the row's
\* date (a null dividend counting as 0), and their ratio to close; both 0
\* for a table without a dividend column
WithDividends(rows, cols) ==
    LET sorted == IF "dividend" \in cols
                  THEN SortBy(rows, LAMBDA r : TickerDateKey(r, "date")) ELSE rows
        window(r) == SelectSeq(sorted, LAMBDA q : /\ q["ticker"] = r["ticker"]
                                                  /\ q["date"] > r["date"] - YearDays
                                                  /\ q["date"] <= r["date"])
        sum(r) == IF "dividend" \in cols
                  THEN SumSkipNull(Column(window(r), "dividend")) ELSE Num(0)
        add(r) == [k \in cols \cup {"rolling_dividend_sum", "dividend_yield"} |->
                      IF k = "rolling_dividend_sum" THEN sum(r)
                      ELSE IF k = "dividend_yield"
                           THEN (IF "dividend" \in cols THEN RatDiv(sum(r), r["close"])
                                 ELSE Num(0))
                      ELSE r[k]]
    IN  Frame(cols \cup {"rolling_dividend_sum", "dividend_yield"},
              [i \in 1..Len(sorted) |-> add(sorted[i])])

OhlcCols == {"open", "high", "low", "close", "adj_close"}

calculate_valuation_metrics(df_prices, df_annual, df_quarterly) ==
    IF is_empty(df_prices) THEN df_prices
    ELSE LET fixed == IF "currency" \in df_prices.cols
                      THEN _pound_fix(df_prices, OhlcCols) ELSE df_prices
             q_annual == AnnualProjection(df_annual)
             q_ttm == TtmProjection(df_quarterly)
         IN  IF fixed.status = "raised" \/ q_ttm.status = "raised" THEN Raised
             ELSE LET df_p0 == Frame(fixed.cols,
                                     SortBy(fixed.rows, LAMBDA r : TickerDateKey(r, "date")))
                      df_p1 == IF ~ is_empty(q_annual)
                               THEN JoinAsof(df_p0, q_annual, "_right") ELSE df_p0
                      df_p2 == IF ~ is_empty(q_ttm)
                               THEN JoinAsof(df_p1, q_ttm, "_ttm") ELSE df_p1
                      df_p == _ensure_schema(_ensure_schema(df_p2, ExpectedTtmCols),
                                            ExpectedAnnualCols)
                      enriched == [i \in 1..Len(df_p.rows) |-> Enrich(df_p.rows[i], df_p.cols)]
                  IN  WithDividends(enriched, EnrichedCols(df_p.cols))

-----------------------------------------------------------------------------
(* Valuation inputs *)

MaxReports == 3

\* days on which an annual report may be dated: 0, 150, 300, 450, ...
ReportDates == {150 * i : i \in 0..MaxReports}

\* days with a price: on a report day, and between two
PriceDates == {300, 400}

AnnualCols == {"ticker", "report_date", "period_type", "currency", "diluted_eps",
               "revenue", "free_cash_flow", "diluted_average_shares",
               "basic_average_shares", "cash_dividends_paid"}

\* an annual report of ticker A on a grid day: none, one with diluted_eps, one
\* without; of ticker B.L: none or one with diluted_eps
ReportKinds == {"absent", "eps", "nulleps"}
OtherReportKinds == {"absent", "eps"}

\* the eps tells the reports of a ticker, and the tickers, apart
AnnualRow(t, d, kind) ==
    [c \in AnnualCols |->
        IF c = "ticker" THEN t
        ELSE IF c = "report_date" THEN d
        ELSE IF c = "period_type" THEN "annual"
        ELSE IF c = "currency" THEN "USD"
        ELSE IF c = "diluted_eps"
             THEN (IF kind = "nulleps" THEN NULL
                   ELSE Num(1 + (d \div 150) + (IF t = "A" THEN 0 ELSE 10)))
        ELSE IF c = "revenue" THEN Num(1000)
        ELSE IF c = "free_cash_flow" THEN Num(100)
        ELSE IF c = "cash_dividends_paid" THEN Num(0 - 5)
        ELSE Num(10)]

AnnualTable(ka, kb) ==
    LET da == SetToSeqDesc({d \in ReportDates : ka[d] # "absent"})
        db == SetToSeqDesc({d \in ReportDates : kb[d] # "absent"})
    IN  Frame(AnnualCols,
              [i \in 1..Len(da) |-> AnnualRow("A", da[i], ka[da[i]])]
              \o [i \in 1..Len(db) |-> AnnualRow("B.L", db[i], kb[db[i]])])

ValPriceCols == {"ticker", "date", "currency", "dividend"} \cup OhlcCols

\* A pays a dividend of 1 on every price day, B.L has none on record
ValPriceRow(t, d, cur) ==
    [c \in ValPriceCols |->
        IF c = "ticker" THEN t ELSE IF c = "date" THEN d
        ELSE IF c = "currency" THEN cur
        ELSE IF c = "dividend" THEN (IF t = "A" THEN Num(1) ELSE NULL)
        ELSE IF t = "A" THEN Num(d \div 10) ELSE Num(d * 10)]

\* both tickers on every price day, newest first; B.L is quoted in pence or
\* in pounds
ValPriceTable(cur) ==
    LET ds == SetToSeqDesc(PriceDates)
    IN  Frame(ValPriceCols,
              [i \in 1..Len(ds) |-> ValPriceRow("B.L", ds[i], cur)]
              \o [i \in 1..Len(ds) |-> ValPriceRow("A", ds[i], "USD")])

\* the filings of ticker A, all of one kind, on the first n grid days after day 0
QuartersOf(n, kind) ==
    QuarterlyTable([d \in QuarterDates |->
                       IF d > 0 /\ d <= 79 * n THEN kind ELSE "absent"],
                   {}, QuarterlyCols)

\* df_quarterly: not supplied, empty, 3 quarters, 4 quarters, every row
\* without revenue and net_income
QuarterlyChoices ==
    {None, Frame(QuarterlyCols, <<>>), QuartersOf(3, "full"), QuartersOf(4, "full"),
     QuartersOf(4, "nopnl")}

InitVal ==
    /\ pc = "val"
    /\ \E ka \in [ReportDates -> ReportKinds], kb \in [ReportDates -> OtherReportKinds],
          cur \in {"GBp", "GBP"}, q \in QuarterlyChoices :
          val_in = [df_prices |-> ValPriceTable(cur),
                    df_annual |-> AnnualTable(ka, kb),
                    df_quarterly |-> q]
    /\ val_out = Idle
    /\ ttm_in = Idle /\ ttm_out = Idle
    /\ target_currency = "EUR" /\ fx_rates = NoRates
    /\ fx_call = NoCall /\ fx_out = Idle
    /\ pf_cfg = Idle /\ portfolio = Idle /\ pf_prices = Idle /\ pf_fx = Idle
    /\ history = Idle /\ fund_in = Idle /\ fund_out = Idle
    /\ fair_in = Idle /\ fair_out = Idle
    /\ ncalls = Idle /\ seen = Idle
    /\ files = Idle /\ etl_queue = Idle /\ requested = Idle

CalculateValuationMetrics ==
    /\ pc = "val"
    /\ val_out' = calculate_valuation_metrics(val_in.df_prices, val_in.df_annual,
                                              val_in.df_quarterly)
    /\ pc' = "val_done"
    /\ UNCHANGED <<ttm_in, ttm_out, val_in, target_currency, fx_rates, fx_call, fx_out,
                 pf_cfg, portfolio, pf_prices, pf_fx, history, fund_in, fund_out,
                   fair_in, fair_out,
                   ncalls, seen,
                   files, etl_queue, requested>>

NextVal == CalculateValuationMetrics

SpecVal == InitVal /\ [][NextVal]_vars

-----------------------------------------------------------------------------
(* Portfolio configuration, src/config/models.py *)

\* PortfolioType
WEIGHTED == "weighted"
ABSOLUTE == "absolute"
WATCHLIST == "watchlist"

\* a construction that ended in a ValidationError
Rejected ==
    [status |-> "rejected", type |-> NULLSTR, start_date |-> NULL,
     initial_capital |-> NULL, positions |-> <<>>]

\* the field validators: TRUE when the value is accepted
validate_weight(v) == ~ (v # NULL /\ (RatLt(v, Num(0)) \/ RatLt(Num(1), v)))

validate_shares(v) == ~ (v # NULL /\ RatLeq(v, Num(0)))

validate_positions(v) == v # <<>>

validate_capital(portfolio_type, v) ==
    /\ ~ (portfolio_type = WEIGHTED /\ v = NULL)
    /\ ~ (v # NULL /\ RatLeq(v, Num(0)))

\* a start date is a day number here, so its format is always valid
validate_start_date_format(portfolio_type, v) ==
    ~ (portfolio_type = WEIGHTED /\ v = NULL)

RECURSIVE SumWeights(_)
SumWeights(positions) ==
    IF positions = <<>> THEN Num(0)
    ELSE RatAdd(IF Head(positions).weight = NULL THEN Num(0) ELSE Head(positions).weight,
                SumWeights(Tail(positions)))

WeightSumTolerance == Rat(1, 1000000)

\* model_post_init: TRUE when no ValueError is raised
model_post_init(self) ==
    /\ self.type = WEIGHTED =>
         /\ ~ RatLt(WeightSumTolerance,
                    RatAbs(RatAdd(SumWeights(self.positions), Num(0 - 1))))
         /\ \A i \in 1..Len(self.positions) : self.positions[i].weight # NULL
    /\ self.type = ABSOLUTE =>
         \A i \in 1..Len(self.positions) : self.positions[i].shares # NULL

\* Portfolio(**kw): kw.given names the optional fields that are passed, an
\* omitted field takes its default None and its validator does not run;
\* model_post_init runs once every field is accepted
Portfolio(kw) ==
    LET self == [status |-> "ok", type |-> kw.type,
                 start_date |-> IF "start_date" \in kw.given THEN kw.start_date ELSE NULL,
                 initial_capital |-> IF "initial_capital" \in kw.given
                                     THEN kw.initial_capital ELSE NULL,
                 positions |-> kw.positions]
        fields_ok ==
            /\ "start_date" \in kw.given => validate_start_date_format(kw.type, kw.start_date)
            /\ "initial_capital" \in kw.given => validate_capital(kw.type, kw.initial_capital)
            /\ \A i \in 1..Len(kw.positions) :
                  /\ validate_weight(kw.positions[i].weight)
                  /\ validate_shares(kw.positions[i].shares)
            /\ validate_positions(kw.positions)
    IN  IF fields_ok /\ model_post_init(self) THEN self ELSE Rejected

\* Portfolio.tickers
tickers(self) == {self.positions[i].ticker : i \in 1..Len(self.positions)}

-----------------------------------------------------------------------------
(* PortfolioEngine, src/analysis/portfolio.py *)

\* fx_engine=None
NoEngine == [given |-> FALSE, target_currency |-> "EUR", fx_rates |-> NoRates]

AbsoluteCols == {"date", "ticker", "position_value", "position_dividend_yoy",
                 "currency", "shares"}

\* shares_map.get(t, 0.0): the dict holds the last position of a ticker
SharesOf(positions, t) ==
    LET idx == {i \in 1..Len(positions) : positions[i].ticker = t}
    IN  IF idx = {} THEN Num(0)
        ELSE positions[CHOOSE i \in idx : \A j \in idx : j <= i].shares

_calculate_absolute(self, df_prices) ==
    IF ~ ({"ticker", "close", "rolling_dividend_sum", "date", "currency"}
            \subseteq df_prices.cols)
    THEN Raised
    ELSE LET val(r) ==
                 LET shares == SharesOf(self.positions, r["ticker"])
                 IN  [c \in AbsoluteCols |->
                        IF c = "date" THEN r["date"]
                        ELSE IF c = "ticker" THEN r["ticker"]
                        ELSE IF c = "position_value" THEN RatMul(shares, r["close"])
                        ELSE IF c = "position_dividend_yoy"
                        THEN RatMul(shares, r["rolling_dividend_sum"])
                        ELSE IF c = "currency" THEN r["currency"]
                        ELSE shares]
         IN  Frame(AbsoluteCols, [i \in 1..Len(df_prices.rows) |-> val(df_prices.rows[i])])

\* the last price row per ticker instead of the first
EntryRows_Last(df_prices, start_date) ==
    LET onafter == SortBy(SelectSeq(df_prices.rows, LAMBDA r : r["date"] >= start_date),
                          LAMBDA r : r["date"])
        first == SelectSeq(onafter,
                           LAMBDA r : \A k \in 1..Len(onafter) :
                                         onafter[k]["ticker"] = r["ticker"]
                                            => onafter[k]["date"] <= r["date"])
    IN  SortBy(first, LAMBDA r : TickerRank[r["ticker"]])

\* df_start (lines 122-132): per ticker the first price row on or after
\* start_date; group_by leaves the order of the groups open, and every later
\* step is a join on ticker, so the rows are listed by ticker
EntryRows(df_prices, start_date) ==
    LET onafter == SortBy(SelectSeq(df_prices.rows, LAMBDA r : r["date"] >= start_date),
                          LAMBDA r : r["date"])
        first == SelectSeq(onafter,
                           LAMBDA r : \A k \in 1..Len(onafter) :
                                         onafter[k]["ticker"] = r["ticker"]
                                            => r["date"] <= onafter[k]["date"])
    IN  SortBy(first, LAMBDA r : TickerRank[r["ticker"]])

StartCols == {"ticker", "start_price", "currency", "date"}

\* lines 138-144: the entry price in the engine's target currency, or as it is
AdjustedStart(df_start, fx_engine) ==
    IF fx_engine.given
    THEN LET conv == convert_to_target(fx_engine.target_currency, fx_engine.fx_rates,
                                       df_start, "start_price", "currency")
             target_col == "start_price_" \o fx_engine.target_currency
         IN  [i \in 1..Len(conv.rows) |->
                [c \in StartCols \cup {"start_price_adjusted"} |->
                    IF c = "start_price_adjusted" THEN conv.rows[i][target_col]
                    ELSE conv.rows[i][c]]]
    ELSE [i \in 1..Len(df_start.rows) |->
            WithCol(df_start.rows[i], "start_price_adjusted", df_start.rows[i]["start_price"])]

\* line 160: weight / weight.sum(), a missing weight counting as 0.0
NormalizedWeight(positions, i) ==
    RatDiv(IF positions[i].weight = NULL THEN Num(0) ELSE positions[i].weight,
           SumWeights(positions))

WeightedCols == {"date", "ticker", "position_value", "currency", "implied_shares",
                 "weight", "position_dividend_yoy"}

\* df_shares (lines 146-174): one row per position, left-joined to the entry
\* prices on ticker
ImpliedShares(self, start_rows) ==
    LET capital == IF self.initial_capital = NULL THEN Num(0) ELSE self.initial_capital
        one(i) ==
            LET weight == NormalizedWeight(self.positions, i)
                allocation == RatMul(weight, capital)
                m == SelectSeq(start_rows,
                               LAMBDA q : q["ticker"] = self.positions[i].ticker)
            IN  IF m = <<>>
                THEN <<[ticker |-> self.positions[i].ticker, implied_shares |-> NULL,
                        weight |-> weight]>>
                ELSE [k \in 1..Len(m) |->
                        [ticker |-> self.positions[i].ticker,
                         implied_shares |-> RatDiv(allocation, m[k]["start_price_adjusted"]),
                         weight |-> weight]]
        all[i \in 0..Len(self.positions)] ==
            IF i = 0 THEN <<>> ELSE all[i - 1] \o one(i)
    IN  all[Len(self.positions)]

\* the shares of a row rescaled by the move of the close since the first row
\* of its ticker, as a daily rebalancing to the allocation would do
ProjectForward_Rebalanced(df_prices, df_shares) ==
    LET first(t) == CHOOSE i \in 1..Len(df_prices.rows) :
                        /\ df_prices.rows[i]["ticker"] = t
                        /\ \A j \in 1..Len(df_prices.rows) :
                              df_prices.rows[j]["ticker"] = t
                                 => df_prices.rows[i]["date"] <= df_prices.rows[j]["date"]
        one(r) ==
            LET m == SelectSeq(df_shares, LAMBDA q : q["ticker"] = r["ticker"])
                scaled(x) == RatDiv(RatMul(x, df_prices.rows[first(r["ticker"])]["close"]),
                                    r["close"])
                val(implied_shares, weight) ==
                    [c \in WeightedCols |->
                        IF c = "date" THEN r["date"]
                        ELSE IF c = "ticker" THEN r["ticker"]
                        ELSE IF c = "position_value" THEN RatMul(implied_shares, r["close"])
                        ELSE IF c = "currency" THEN r["currency"]
                        ELSE IF c = "implied_shares" THEN implied_shares
                        ELSE IF c = "weight" THEN weight
                        ELSE RatMul(implied_shares, r["rolling_dividend_sum"])]
            IN  IF m = <<>> THEN <<val(NULL, NULL)>>
                ELSE [k \in 1..Len(m) |-> val(scaled(m[k]["implied_shares"]), m[k]["weight"])]
        all[i \in 0..Len(df_prices.rows)] ==
            IF i = 0 THEN <<>> ELSE all[i - 1] \o one(df_prices.rows[i])
    IN  all[Len(df_prices.rows)]

\* lines 177-196: df_prices left-joined to df_shares on ticker
ProjectForward(df_prices, df_shares) ==
    LET one(r) ==
            LET m == SelectSeq(df_shares, LAMBDA q : q["ticker"] = r["ticker"])
                val(implied_shares, weight) ==
                    [c \in WeightedCols |->
                        IF c = "date" THEN r["date"]
                        ELSE IF c = "ticker" THEN r["ticker"]
                        ELSE IF c = "position_value" THEN RatMul(implied_shares, r["close"])
                        ELSE IF c = "currency" THEN r["currency"]
                        ELSE IF c = "implied_shares" THEN implied_shares
                        ELSE IF c = "weight" THEN weight
                        ELSE RatMul(implied_shares, r["rolling_dividend_sum"])]
            IN  IF m = <<>> THEN <<val(NULL, NULL)>>
                ELSE [k \in 1..Len(m) |-> val(m[k]["implied_shares"], m[k]["weight"])]
        all[i \in 0..Len(df_prices.rows)] ==
            IF i = 0 THEN <<>> ELSE all[i - 1] \o one(df_prices.rows[i])
    IN  all[Len(df_prices.rows)]

_calculate_weighted(self, df_prices, fx_engine) ==
    IF self.start_date = NULL THEN Raised
    ELSE IF ~ ({"ticker", "close", "currency", "date"} \subseteq df_prices.cols) THEN Raised
    ELSE LET entry == EntryRows(df_prices, self.start_date[1])
             df_start == Frame(StartCols,
                               [i \in 1..Len(entry) |->
                                   [ticker |-> entry[i]["ticker"],
                                    start_price |-> entry[i]["close"],
                                    currency |-> entry[i]["currency"],
                                    date |-> entry[i]["date"]]])
         IN  IF is_empty(df_start) THEN EmptyFrame
             ELSE IF "rolling_dividend_sum" \notin df_prices.cols THEN Raised
             ELSE Frame(WeightedCols,
                        ProjectForward(df_prices,
                                       ImpliedShares(self, AdjustedStart(df_start, fx_engine))))

WatchlistCols == {"date", "ticker", "position_value", "currency", "position_dividend_yoy"}

_calculate_watchlist(df_prices) ==
    IF ~ ({"date", "ticker", "close", "currency", "rolling_dividend_sum"}
            \subseteq df_prices.cols)
    THEN Raised
    ELSE Frame(WatchlistCols,
               [i \in 1..Len(df_prices.rows) |->
                   [date |-> df_prices.rows[i]["date"],
                    ticker |-> df_prices.rows[i]["ticker"],
                    position_value |-> df_prices.rows[i]["close"],
                    currency |-> df_prices.rows[i]["currency"],
                    position_dividend_yoy |-> df_prices.rows[i]["rolling_dividend_sum"]]])

\* no ticker filter
TickerFiltered_All(self, df_prices) == df_prices

\* line 42
TickerFiltered(self, df_prices) ==
    Frame(df_prices.cols, SelectSeq(df_prices.rows, LAMBDA r : r["ticker"] \in tickers(self)))

\* Position has no field named group, so getattr(pos, "group", None) is None
\* and every row gets the group "N/A"; with_columns on a table without a
\* ticker column raises ColumnNotFoundError
calculate_portfolio_history(self, df_prices, fx_engine) ==
    LET df_portfolio == TickerFiltered(self, df_prices)
        floored == IF self.start_date # NULL
                   THEN Frame(df_portfolio.cols,
                              SelectSeq(df_portfolio.rows,
                                        LAMBDA r : r["date"] >= self.start_date[1]))
                   ELSE df_portfolio
        history_ == IF self.type = ABSOLUTE THEN _calculate_absolute(self, floored)
                    ELSE IF self.type = WEIGHTED
                    THEN _calculate_weighted(self, floored, fx_engine)
                    ELSE _calculate_watchlist(floored)
    IN  IF is_empty(df_portfolio) THEN EmptyFrame
        ELSE IF history_.status = "raised" THEN Raised
        ELSE IF "ticker" \notin history_.cols THEN Raised
        ELSE Frame(history_.cols \cup {"group"},
                   [i \in 1..Len(history_.rows) |->
                       WithCol(history_.rows[i], "group", "N/A")])

-----------------------------------------------------------------------------
(* Portfolio inputs *)

MaxPositions == 2

PfDates == {10, 20}

\* A is bought at 50 and later worth 60, B.L at 25 and later 20
PfClose(t, d) ==
    IF t = "A" THEN (IF d = 10 THEN Num(50) ELSE Num(60))
    ELSE (IF d = 10 THEN Num(25) ELSE Num(20))

PfPriceCols == {"ticker", "date", "close", "currency", "rolling_dividend_sum"}

PfPriceRow(t, d, cur) ==
    [c \in PfPriceCols |->
        IF c = "ticker" THEN t ELSE IF c = "date" THEN d
        ELSE IF c = "close" THEN PfClose(t, d)
        ELSE IF c = "currency" THEN cur ELSE Num(2)]

\* the rows of A on the days chosen, newest first, then those of B.L if it is
\* priced at all
PfPriceTable(daysA, withB, curA) ==
    LET da == SetToSeqDesc(daysA)
        db == SetToSeqDesc(IF withB THEN PfDates ELSE {})
    IN  Frame(PfPriceCols,
              [i \in 1..Len(da) |-> PfPriceRow("A", da[i], curA)]
              \o [i \in 1..Len(db) |-> PfPriceRow("B.L", db[Len(db) + 1 - i], "GBP")])

PfPriceTables(currencies) ==
    {PfPriceTable(daysA, withB, curA) :
        daysA \in SUBSET PfDates, withB \in BOOLEAN, curA \in currencies}

\* an engine whose only rate is a EURUSD=X close of 1.25 on day d
PfEngine(d) ==
    [given |-> TRUE, target_currency |-> "EUR",
     fx_rates |-> _extract_rates("EUR",
                     Frame(PriceCols, <<PriceRow("EURUSD=X", d, Rat(5, 4), "USD")>>)).rates]

PfEngines == {NoEngine, PfEngine(1), PfEngine(15)}

PositionKw(t, weight, shares) == [ticker |-> t, weight |-> weight, shares |-> shares]

WeightChoices == {Rat(1, 4), Rat(1, 2), Rat(3, 4), Num(1), Num(2)}
SharesChoices == {NULL, Num(0), Num(10)}

PortfolioKw(type, given, start_date, initial_capital, positions) ==
    [type |-> type, given |-> given, start_date |-> start_date,
     initial_capital |-> initial_capital, positions |-> positions]

\* an optional field is omitted, passed as None or passed with a value
FieldChoices(name, values) ==
    {[given |-> {}, value |-> NULL], [given |-> {name}, value |-> NULL]}
    \cup {[given |-> {name}, value |-> v] : v \in values}

\* a start before the first price, and one on the day of the last
StartChoices == {<<5>>, <<20>>}

WeightedKws ==
    {PortfolioKw(WEIGHTED, s.given \cup c.given, s.value, c.value, positions) :
        s \in FieldChoices("start_date", StartChoices),
        c \in FieldChoices("initial_capital", {Num(10000)}),
        positions \in SeqsUpTo({PositionKw(t, w, NULL) : t \in Tickers, w \in WeightChoices},
                               MaxPositions)}

AbsoluteKws ==
    {PortfolioKw(ABSOLUTE, s.given, s.value, NULL, positions) :
        s \in FieldChoices("start_date", StartChoices),
        positions \in SeqsUpTo({PositionKw(t, NULL, n) : t \in Tickers, n \in SharesChoices},
                               MaxPositions)}

WatchlistKws ==
    {PortfolioKw(WATCHLIST, s.given, s.value, NULL, positions) :
        s \in FieldChoices("start_date", StartChoices),
        positions \in SeqsUpTo({PositionKw(t, NULL, NULL) : t \in Tickers}, MaxPositions)}

InitPf ==
    /\ pc = "pf_new"
    /\ \/ /\ pf_cfg \in WeightedKws
          /\ pf_prices \in PfPriceTables({"EUR", "USD"})
          /\ pf_fx \in PfEngines
       \/ /\ pf_cfg \in AbsoluteKws \cup WatchlistKws
          /\ pf_prices \in PfPriceTables({"EUR"})
          /\ pf_fx = NoEngine
    /\ portfolio = Idle /\ history = Idle
    /\ ttm_in = Idle /\ ttm_out = Idle /\ val_in = Idle /\ val_out = Idle
    /\ target_currency = "EUR" /\ fx_rates = NoRates
    /\ fx_call = NoCall /\ fx_out = Idle
    /\ fund_in = Idle /\ fund_out = Idle
    /\ fair_in = Idle /\ fair_out = Idle
    /\ ncalls = Idle /\ seen = Idle
    /\ files = Idle /\ etl_queue = Idle /\ requested = Idle

ConstructPortfolio ==
    /\ pc = "pf_new"
    /\ portfolio' = Portfolio(pf_cfg)
    /\ pc' = IF portfolio'.status = "ok" THEN "pf" ELSE "pf_rejected"
    /\ UNCHANGED <<ttm_in, ttm_out, val_in, val_out, target_currency, fx_rates, fx_call,
                   fx_out, pf_cfg, pf_prices, pf_fx, history, fund_in, fund_out,
                   fair_in, fair_out,
                   ncalls, seen,
                   files, etl_queue, requested>>

CalculatePortfolioHistory ==
    /\ pc = "pf"
    /\ history' = calculate_portfolio_history(portfolio, pf_prices, pf_fx)
    /\ pc' = "pf_done"
    /\ UNCHANGED <<ttm_in, ttm_out, val_in, val_out, target_currency, fx_rates, fx_call,
                   fx_out, pf_cfg, portfolio, pf_prices, pf_fx, fund_in, fund_out,
                   fair_in, fair_out,
                   ncalls, seen,
                   files, etl_queue, requested>>

NextPf == ConstructPortfolio \/ CalculatePortfolioHistory

SpecPf == InitPf /\ [][NextPf]_vars

-----------------------------------------------------------------------------
(* MetricsEngine.calculate_fundamental_metrics, src/analysis/metrics.py *)

RatNeg(x) == IF x = NULL THEN NULL ELSE <<0 - x[1], x[2]>>

RatSub(x, y) == RatAdd(x, RatNeg(y))

\* fill_null(0)
FillNull0(x) == IF x = NULL THEN Num(0) ELSE x

FundRequired ==
    {"ticker", "total_assets", "total_current_liabilities", "total_equity", "total_debt",
     "long_term_debt", "short_term_debt", "cash_and_equivalents", "goodwill",
     "intangible_assets", "goodwill_and_intangible_assets", "operating_cash_flow",
     "capital_expenditure", "free_cash_flow", "revenue", "gross_profit", "ebit",
     "net_income", "interest_expense"}

FundAdded ==
    {"capital_employed", "tangible_capital_employed", "net_debt", "fcf_calculated",
     "roce", "rotce", "net_debt_to_ebit", "interest_coverage", "net_profit_margin",
     "gross_margin", "ebit_margin", "cash_conversion_ratio"}

\* line 151: no guard on the divisor
Roce(ebit, capital_employed) == RatDiv(ebit, capital_employed)

\* the expressions of lines 108-176 on one row
FundamentalRow(r, cols) ==
    LET debt == Coalesce(<<r["total_debt"],
                           RatAdd(FillNull0(r["long_term_debt"]),
                                  FillNull0(r["short_term_debt"]))>>)
        intangibles == Coalesce(<<r["goodwill_and_intangible_assets"],
                                  RatAdd(FillNull0(r["goodwill"]),
                                         FillNull0(r["intangible_assets"]))>>)
        capital_employed == RatSub(r["total_assets"], r["total_current_liabilities"])
        tangible_cap ==
            RatSub(RatSub(RatAdd(r["total_equity"], FillNull0(debt)),
                          FillNull0(r["cash_and_equivalents"])),
                   FillNull0(intangibles))
        fcf_calculated == RatSub(r["operating_cash_flow"], RatAbs(r["capital_expenditure"]))
        free_cash_flow == Coalesce(<<r["free_cash_flow"], fcf_calculated>>)
    IN  [c \in cols \cup FundAdded |->
            IF c = "capital_employed" THEN capital_employed
            ELSE IF c = "tangible_capital_employed" THEN tangible_cap
            ELSE IF c = "net_debt"
            THEN RatSub(FillNull0(debt), FillNull0(r["cash_and_equivalents"]))
            ELSE IF c = "fcf_calculated" THEN fcf_calculated
            ELSE IF c = "roce" THEN Roce(r["ebit"], capital_employed)
            ELSE IF c = "rotce"
            THEN (IF tangible_cap # NULL /\ RatLt(Num(0), tangible_cap)
                  THEN RatDiv(r["ebit"], tangible_cap) ELSE NULL)
            ELSE IF c = "net_debt_to_ebit" THEN RatDiv(debt, r["ebit"])
            ELSE IF c = "interest_coverage"
            THEN RatDiv(r["ebit"], RatAbs(r["interest_expense"]))
            ELSE IF c = "net_profit_margin" THEN RatDiv(r["net_income"], r["revenue"])
            ELSE IF c = "gross_margin" THEN RatDiv(r["gross_profit"], r["revenue"])
            ELSE IF c = "ebit_margin" THEN RatDiv(r["ebit"], r["revenue"])
            ELSE IF c = "free_cash_flow" THEN free_cash_flow
            ELSE IF c = "cash_conversion_ratio" THEN RatDiv(free_cash_flow, r["net_income"])
            ELSE r[c]]

calculate_fundamental_metrics(df_fund) ==
    IF is_empty(df_fund) THEN df_fund
    ELSE LET fixed == IF "currency" \in df_fund.cols
                      THEN _pound_fix(df_fund, {"cash_dividends_paid"})
                      ELSE df_fund
             dated == IF "report_date" \in fixed.cols /\ "date" \notin fixed.cols
                      THEN Frame(fixed.cols \cup {"date"},
                                 [i \in 1..Len(fixed.rows) |->
                                     WithCol(fixed.rows[i], "date",
                                             fixed.rows[i]["report_date"])])
                      ELSE fixed
             df == _ensure_schema(dated, FundRequired)
         IN  IF fixed.status = "raised" THEN Raised
             ELSE Frame(df.cols \cup FundAdded,
                        [i \in 1..Len(df.rows) |-> FundamentalRow(df.rows[i], df.cols)])

-----------------------------------------------------------------------------
(* Fundamentals inputs *)

MaxFundRows == 2

FundCols == FundRequired \cup {"report_date", "currency", "cash_dividends_paid"}

EbitChoices == {NULL, Num(0), Num(12), Num(0 - 12)}

\* (total_assets, total_current_liabilities): one of them missing, capital
\* employed 0, positive, negative
CapitalChoices == {<<NULL, Num(40)>>, <<Num(100), NULL>>, <<Num(100), Num(100)>>,
                   <<Num(100), Num(40)>>, <<Num(40), Num(100)>>}

FundKinds == {"full", "sparse"}

\* a yearly report of ticker t in currency cur: "full" carries every other
\* field, "sparse" has zero revenue, net income and interest and nothing else
FundRow(t, d, cur, ebit, capital, kind) ==
    [c \in FundCols |->
        IF c = "ticker" THEN t
        ELSE IF c = "report_date" THEN d
        ELSE IF c = "currency" THEN cur
        ELSE IF c = "ebit" THEN ebit
        ELSE IF c = "total_assets" THEN capital[1]
        ELSE IF c = "total_current_liabilities" THEN capital[2]
        ELSE IF kind = "sparse"
        THEN (IF c \in {"revenue", "net_income", "interest_expense"} THEN Num(0) ELSE NULL)
        ELSE IF c = "total_equity" THEN Num(50)
        ELSE IF c = "long_term_debt" THEN Num(30)
        ELSE IF c = "short_term_debt" THEN Num(10)
        ELSE IF c = "cash_and_equivalents" THEN Num(20)
        ELSE IF c = "goodwill" THEN Num(5)
        ELSE IF c = "intangible_assets" THEN Num(5)
        ELSE IF c = "operating_cash_flow" THEN Num(20)
        ELSE IF c = "capital_expenditure" THEN Num(0 - 8)
        ELSE IF c = "revenue" THEN Num(200)
        ELSE IF c = "gross_profit" THEN Num(80)
        ELSE IF c = "net_income" THEN Num(10)
        ELSE IF c = "interest_expense" THEN Num(0 - 4)
        ELSE IF c = "cash_dividends_paid" THEN Num(0 - 300)
        ELSE NULL]

\* the i-th row is a report of A (odd i) or B.L (even i) on day 365 * i
FundChoice == [ebit : EbitChoices, capital : CapitalChoices, kind : FundKinds]

\* columns the table may lack
FundDropped == {{}, {"currency"}, {"cash_dividends_paid"}, {"ebit"},
                {"total_assets", "total_current_liabilities"}}

\* B.L reports in pence; A reports in curA
FundTable(choices, dropped, curA) ==
    Frame(FundCols \ dropped,
          [i \in 1..Len(choices) |->
              Restrict(FundRow(IF i % 2 = 1 THEN "A" ELSE "B.L", YearDays * i,
                               IF i % 2 = 1 THEN curA ELSE "GBp",
                               choices[i].ebit, choices[i].capital, choices[i].kind),
                       FundCols \ dropped)])

InitFund ==
    /\ pc = "fund"
    /\ \E choices \in SeqsUpTo(FundChoice, MaxFundRows), dropped \in FundDropped,
          curA \in {"EUR", "GBp"} :
          fund_in = FundTable(choices, dropped, curA)
    /\ fund_out = Idle
    /\ ttm_in = Idle /\ ttm_out = Idle /\ val_in = Idle /\ val_out = Idle
    /\ target_currency = "EUR" /\ fx_rates = NoRates
    /\ fx_call = NoCall /\ fx_out = Idle
    /\ pf_cfg = Idle /\ portfolio = Idle /\ pf_prices = Idle /\ pf_fx = Idle
    /\ history = Idle
    /\ fair_in = Idle /\ fair_out = Idle
    /\ ncalls = Idle /\ seen = Idle
    /\ files = Idle /\ etl_queue = Idle /\ requested = Idle

CalculateFundamentalMetrics ==
    /\ pc = "fund"
    /\ fund_out' = calculate_fundamental_metrics(fund_in)
    /\ pc' = "fund_done"
    /\ UNCHANGED <<ttm_in, ttm_out, val_in, val_out, target_currency, fx_rates, fx_call,
                   fx_out, pf_cfg, portfolio, pf_prices, pf_fx, history, fund_in,
                   fair_in, fair_out,
                   ncalls, seen,
                   files, etl_queue, requested>>

NextFund == CalculateFundamentalMetrics

SpecFund == InitFund /\ [][NextFund]_vars

-----------------------------------------------------------------------------
(* MetricsEngine.calculate_fair_value_history, src/analysis/metrics.py *)

\* years, at its default
FairYears == 5

\* upper bound of the pe filter
PeCap == 250

\* the finite values of a sequence in ascending order
RECURSIVE SortRat(_)
SortRat(vs) ==
    IF Len(vs) <= 1 THEN vs
    ELSE LET rest == SortRat(SubSeq(vs, 1, Len(vs) - 1))
             p == vs[Len(vs)]
             k == Cardinality({i \in 1..Len(rest) : RatLeq(rest[i], p)})
         IN  SubSeq(rest, 1, k) \o <<p>> \o SubSeq(rest, k + 1, Len(rest))

\* median(): the middle value, or the mean of the two middle values; null
\* for no value
Median(vs) ==
    LET sorted == SortRat(vs)
        n == Len(sorted)
    IN  IF n = 0 THEN NULL
        ELSE IF n % 2 = 1 THEN sorted[(n + 1) \div 2]
        ELSE RatDiv(RatAdd(sorted[n \div 2], sorted[n \div 2 + 1]), Num(2))

\* the pe filter without its upper bound
PeValid_NoCap(pe) == pe # NULL /\ pe[2] # 0 /\ RatLt(Num(0), pe)

\* pe_ratio.gt(0) & pe_ratio.lt(250): a null fails the filter, +inf and NaN
\* are not below 250, -inf is not above 0
PeValid(pe) == pe # NULL /\ pe[2] # 0 /\ RatLt(Num(0), pe) /\ RatLt(pe, Num(PeCap))

\* start_date = max_date - years * 365 days (lines 428-432)
WindowStart(rows) ==
    (CHOOSE d \in {rows[i]["date"] : i \in 1..Len(rows)} :
        \A i \in 1..Len(rows) : rows[i]["date"] <= d) - FairYears * YearDays

\* pe_stats (lines 437-447): per ticker the median of the filtered pe_ratio;
\* a ticker without a filtered row has no entry, and the left join leaves
\* its median_pe null
PeStats(rows, t) ==
    LET sel == SelectSeq(rows, LAMBDA r : /\ r["ticker"] = t
                                          /\ r["date"] >= WindowStart(rows)
                                          /\ PeValid(r["pe_ratio"]))
    IN  Median([i \in 1..Len(sel) |-> sel[i]["pe_ratio"]])

FairAdded == {"median_pe", "implied_eps", "fair_value"}

calculate_fair_value_history(df_prices) ==
    IF "pe_ratio" \notin df_prices.cols THEN df_prices
    ELSE IF is_empty(df_prices) THEN df_prices
    ELSE LET val(r) ==
                 LET median_pe == PeStats(df_prices.rows, r["ticker"])
                     implied_eps == RatDiv(r["close"], r["pe_ratio"])
                 IN  [c \in df_prices.cols \cup FairAdded |->
                        IF c = "median_pe" THEN median_pe
                        ELSE IF c = "implied_eps" THEN implied_eps
                        ELSE IF c = "fair_value" THEN RatMul(implied_eps, median_pe)
                        ELSE r[c]]
         IN  Frame(df_prices.cols \cup FairAdded,
                   [i \in 1..Len(df_prices.rows) |-> val(df_prices.rows[i])])

-----------------------------------------------------------------------------
(* Fair value inputs *)

MaxFairDates == 2

\* day 0 and the days 1825, 1850, ...: day 0 is inside the window of a table
\* that ends on day 1825 and outside the window of one that ends later
FairDates == {0} \cup {FairYears * YearDays + 25 * (i - 1) : i \in 1..MaxFairDates}

\* pe_ratio of a price row of A: none, negative, zero, valid, at the cap,
\* above it, infinite
PeChoices == {NULL, Num(0 - 5), Num(0), Num(10), Num(20), Num(40), Num(PeCap), Num(300),
              <<1, 0>>}

\* the choice of a day without a row
NoRow == <<0, 0, 0>>

FairCols == {"ticker", "date", "close", "pe_ratio"}

FairRow(t, d, pe) ==
    [c \in FairCols |->
        IF c = "ticker" THEN t ELSE IF c = "date" THEN d
        ELSE IF c = "close" THEN Num(60 + d \div 25) ELSE pe]

\* the rows of A on the days that have one, newest first, and a row of B.L
\* on day 1825 or none
FairTable(pes, other, cols) ==
    LET da == SetToSeqDesc({d \in FairDates : pes[d] # NoRow})
    IN  Frame(cols,
              [i \in 1..Len(da) |-> Restrict(FairRow("A", da[i], pes[da[i]]), cols)]
              \o (IF other = NoRow THEN <<>>
                  ELSE <<Restrict(FairRow("B.L", FairYears * YearDays, other), cols)>>))

InitFair ==
    /\ pc = "fair"
    /\ \E pes \in [FairDates -> PeChoices \cup {NoRow}],
          other \in {NoRow, NULL, Num(10)},
          cols \in {FairCols, FairCols \ {"pe_ratio"}} :
          fair_in = FairTable(pes, other, cols)
    /\ fair_out = Idle
    /\ ttm_in = Idle /\ ttm_out = Idle /\ val_in = Idle /\ val_out = Idle
    /\ target_currency = "EUR" /\ fx_rates = NoRates
    /\ fx_call = NoCall /\ fx_out = Idle
    /\ pf_cfg = Idle /\ portfolio = Idle /\ pf_prices = Idle /\ pf_fx = Idle
    /\ history = Idle /\ fund_in = Idle /\ fund_out = Idle
    /\ ncalls = Idle /\ seen = Idle
    /\ files = Idle /\ etl_queue = Idle /\ requested = Idle

CalculateFairValueHistory ==
    /\ pc = "fair"
    /\ fair_out' = calculate_fair_value_history(fair_in)
    /\ pc' = "fair_done"
    /\ UNCHANGED <<ttm_in, ttm_out, val_in, val_out, target_currency, fx_rates, fx_call,
                   fx_out, pf_cfg, portfolio, pf_prices, pf_fx, history, fund_in, fund_out,
                   fair_in,
                   ncalls, seen,
                   files, etl_queue, requested>>

NextFair == CalculateFairValueHistory

SpecFair == InitFair /\ [][NextFair]_vars

-----------------------------------------------------------------------------
(* A session: one FXEngine, one Portfolio and one price table, used by a    *)
(* sequence of convert_to_target, convert_amount and                        *)
(* calculate_portfolio_history calls (src/analysis/fx.py,                   *)
(* src/analysis/portfolio.py)                                               *)

MaxCalls == 4

\* self.fx_rates after a method has read the series of the currencies in
\* `used`: `self.fx_rates.items()` and `self.fx_rates[source_currency]` are
\* reads, no method assigns to the dict or to one of its tables
RatesAfterRead_Popped(rates, used) == [c \in (DOMAIN rates) \ used |-> rates[c]]

RatesAfterRead(rates, used) == rates

SessionEngine == [given |-> TRUE, target_currency |-> target_currency, fx_rates |-> fx_rates]

SessionCall(op, d, cur, engine) ==
    [op |-> op, date |-> d, source_currency |-> cur, engine |-> engine]

\* a returned float as a one-cell table, so that every result has one shape
AsTable(value) == Frame({"value"}, <<[value |-> value]>>)

SessionPortfolios ==
    {Portfolio(PortfolioKw(WEIGHTED, {"start_date", "initial_capital"}, <<5>>, Num(10000),
                           <<PositionKw("A", Rat(1, 2), NULL),
                             PositionKw("B.L", Rat(1, 2), NULL)>>)),
     Portfolio(PortfolioKw(ABSOLUTE, {}, NULL, NULL, <<PositionKw("A", NULL, Num(10))>>))}

InitSession ==
    /\ pc = "session"
    /\ target_currency = "EUR"
    /\ \E gbp \in BOOLEAN :
         fx_rates = _extract_rates("EUR",
                        FxPriceTable([d \in RateDates |->
                                         IF d = 1 THEN Rat(11, 10) ELSE Rat(21, 20)],
                                     gbp)).rates
    /\ portfolio \in SessionPortfolios
    /\ pf_prices \in {PfPriceTable(PfDates, TRUE, "USD"), PfPriceTable({20}, FALSE, "EUR")}
    /\ ncalls = 0 /\ seen = {}
    /\ fx_call = NoCall /\ fx_out = Idle /\ history = Idle
    /\ pf_cfg = Idle /\ pf_fx = NoEngine
    /\ ttm_in = Idle /\ ttm_out = Idle /\ val_in = Idle /\ val_out = Idle
    /\ fund_in = Idle /\ fund_out = Idle
    /\ fair_in = Idle /\ fair_out = Idle
    /\ files = Idle /\ etl_queue = Idle /\ requested = Idle

SessionConvertToTarget ==
    /\ pc = "session" /\ ncalls < MaxCalls
    /\ fx_call' = SessionCall("convert_to_target", 0, NULLSTR, TRUE)
    /\ fx_out' = convert_to_target(target_currency, fx_rates, pf_prices, "close", "currency")
    /\ fx_rates' = RatesAfterRead(fx_rates, DOMAIN fx_rates)
    /\ seen' = seen \cup {<<fx_call', fx_out'>>}
    /\ ncalls' = ncalls + 1
    /\ UNCHANGED <<pc, ttm_in, ttm_out, val_in, val_out, target_currency, pf_cfg, portfolio,
                   pf_prices, pf_fx, history, fund_in, fund_out, fair_in, fair_out,
                   files, etl_queue, requested>>

SessionConvertAmount ==
    /\ pc = "session" /\ ncalls < MaxCalls
    /\ \E d \in RowDates, cur \in {"EUR", "USD", "GBP"} :
         /\ fx_call' = SessionCall("convert_amount", d, cur, TRUE)
         /\ fx_out' = AsTable(convert_amount(target_currency, fx_rates, Num(100), d, cur))
         /\ fx_rates' = RatesAfterRead(fx_rates,
                            IF cur # target_currency /\ cur \in DOMAIN fx_rates
                            THEN {cur} ELSE {})
    /\ seen' = seen \cup {<<fx_call', fx_out'>>}
    /\ ncalls' = ncalls + 1
    /\ UNCHANGED <<pc, ttm_in, ttm_out, val_in, val_out, target_currency, pf_cfg, portfolio,
                   pf_prices, pf_fx, history, fund_in, fund_out, fair_in, fair_out,
                   files, etl_queue, requested>>

SessionCalculateHistory ==
    /\ pc = "session" /\ ncalls < MaxCalls
    /\ \E engine \in BOOLEAN :
         /\ fx_call' = SessionCall("calculate_portfolio_history", 0, NULLSTR, engine)
         /\ history' = calculate_portfolio_history(portfolio, pf_prices,
                           IF engine THEN SessionEngine ELSE NoEngine)
         /\ fx_rates' = RatesAfterRead(fx_rates,
                            IF engine /\ portfolio.type = WEIGHTED /\ history'.status = "ok"
                               /\ ~is_empty(history')
                            THEN DOMAIN fx_rates ELSE {})
    /\ seen' = seen \cup {<<fx_call', history'>>}
    /\ ncalls' = ncalls + 1
    /\ UNCHANGED <<pc, ttm_in, ttm_out, val_in, val_out, target_currency, fx_out, pf_cfg,
                   portfolio, pf_prices, pf_fx, fund_in, fund_out, fair_in, fair_out,
                   files, etl_queue, requested>>

NextSession == SessionConvertToTarget \/ SessionConvertAmount \/ SessionCalculateHistory

SpecSession == InitSession /\ [][NextSession]_vars

-----------------------------------------------------------------------------
(* ETLPipeline.run_price_update (src/etl/pipeline.py) over ParquetStorage   *)
(* (src/core/file_manager.py). Dates are days since 1970-01-01.             *)

\* date(2021, 1, 1)
INITIAL_START_DATE == 18628

MaxEtlDays == 3

\* the trading days the extractor can return rows for
EtlDates == {INITIAL_START_DATE + i : i \in 0..(MaxEtlDays - 1)}

NoFile == [exists |-> FALSE, rows |-> <<>>]
File(rows) == [exists |-> TRUE, rows |-> rows]

\* ParquetStorage.read: the rows of the file, FileNotFoundError when absent
read(storage, filename) == storage[filename]

EtlRow(t, d) == [ticker |-> t, date |-> d]

\* map_prices_to_df of what yfinance returns for the days in `days`: one row
\* per day, in the order of the date index
Fetched(t, days) ==
    LET ds == SetToSeqDesc(days)
    IN  [i \in 1..Len(ds) |-> EtlRow(t, ds[Len(ds) + 1 - i])]

MaxDate(rows) ==
    CHOOSE d \in {rows[i]["date"] : i \in 1..Len(rows)} :
        \A i \in 1..Len(rows) : rows[i]["date"] <= d

\* _detect_price_gap: a one-element tuple holding the start date; the empty
\* tuple when max(date) of an empty file is None and the assert raises
_detect_price_gap(storage, filename) ==
    LET existing_df == read(storage, filename)
    IN  IF ~ existing_df.exists THEN <<INITIAL_START_DATE>>
        ELSE IF existing_df.rows = <<>> THEN <<>>
        ELSE <<MaxDate(existing_df.rows) + 1>>

\* unique(subset=["date"]): one row of every date
UniqueByDate(rows) ==
    SelectSeq([i \in 1..Len(rows) |-> [row |-> rows[i], first |-> \A j \in 1..(i - 1) :
                                                     rows[j]["date"] # rows[i]["date"]]],
              LAMBDA x : x.first)

\* the fetched rows alone, the stored ones forgotten
_merge_price_data_NewOnly(storage, filename, new_df) == new_df

\* _merge_price_data: stored and new rows, one per date, by date; the new rows
\* as they are when there is no file
_merge_price_data(storage, filename, new_df) ==
    LET existing_df == read(storage, filename)
    IN  IF ~ existing_df.exists THEN new_df
        ELSE LET u == UniqueByDate(existing_df.rows \o new_df)
             IN  SortBy([i \in 1..Len(u) |-> u[i].row], LAMBDA r : r["date"])

\* atomic_write: the file is replaced when the temporary file could be written
\* and renamed, and is left as it was otherwise
atomic_write(storage, df, filename, written) ==
    IF written THEN [storage EXCEPT ![filename] = File(df)] ELSE storage

\* what the extractor and the disk can do for one ticker: get_prices raises,
\* get_prices finds no data (ValueError), the write fails, or rows are stored
FetchOutcomes ==
    {[kind |-> k, days |-> {}] : k \in {"raised", "empty", "write_failed"}}
    \cup {[kind |-> "written", days |-> S] : S \in (SUBSET EtlDates) \ {{}}}

TickerLists == {q \in SeqsUpTo(Tickers, 2) : q # <<>>}

NoFetch == [ticker |-> NULLSTR, start_date |-> <<>>, kind |-> "none"]

InitEtl ==
    /\ pc = "etl"
    /\ files = [t \in Tickers |-> NoFile]
    /\ etl_queue = <<>>
    /\ requested = NoFetch
    /\ ttm_in = Idle /\ ttm_out = Idle /\ val_in = Idle /\ val_out = Idle
    /\ target_currency = "EUR" /\ fx_rates = NoRates
    /\ fx_call = NoCall /\ fx_out = Idle
    /\ pf_cfg = Idle /\ portfolio = Idle /\ pf_prices = Idle /\ pf_fx = Idle
    /\ history = Idle /\ fund_in = Idle /\ fund_out = Idle
    /\ fair_in = Idle /\ fair_out = Idle
    /\ ncalls = Idle /\ seen = Idle

\* run_price_update(tickers) is entered: the loop has every ticker before it
RunPriceUpdate ==
    /\ pc = "etl" /\ etl_queue = <<>>
    /\ etl_queue' \in TickerLists
    /\ requested' = NoFetch
    /\ UNCHANGED <<pc, files, ttm_in, ttm_out, val_in, val_out, target_currency, fx_rates,
                   fx_call, fx_out, pf_cfg, portfolio, pf_prices, pf_fx, history,
                   fund_in, fund_out, fair_in, fair_out, ncalls, seen>>

\* one pass of the loop of run_price_update, for the next ticker; an exception
\* of any step ends the pass and leaves the file alone
UpdateTicker ==
    /\ pc = "etl" /\ etl_queue # <<>>
    /\ \E outcome \in FetchOutcomes :
         LET ticker == Head(etl_queue)
             start_date == _detect_price_gap(files, ticker)
             new_df == Fetched(ticker, outcome.days)
             merged_df == _merge_price_data(files, ticker, new_df)
         IN  IF start_date = <<>>
             THEN /\ requested' = [ticker |-> ticker, start_date |-> <<>>, kind |-> "raised"]
                  /\ files' = files
             ELSE /\ requested' = [ticker |-> ticker, start_date |-> start_date,
                                   kind |-> outcome.kind]
                  /\ files' = IF outcome.kind \in {"raised", "empty"} THEN files
                              ELSE atomic_write(files, merged_df, ticker,
                                                outcome.kind = "written")
    /\ etl_queue' = Tail(etl_queue)
    /\ UNCHANGED <<pc, ttm_in, ttm_out, val_in, val_out, target_currency, fx_rates,
                   fx_call, fx_out, pf_cfg, portfolio, pf_prices, pf_fx, history,
                   fund_in, fund_out, fair_in, fair_out, ncalls, seen>>

NextEtl == RunPriceUpdate \/ UpdateTicker

SpecEtl == InitEtl /\ [][NextEtl]_vars

-----------------------------------------------------------------------------
(* Properties of calculate_ttm_history *)

TtmDone == pc = "ttm_done" /\ ttm_out.status = "ok"

InRows == {ttm_in.rows[i] : i \in 1..Len(ttm_in.rows)}
OutRows == {ttm_out.rows[i] : i \in 1..Len(ttm_out.rows)}

\* the quarterly rows of o's ticker, with revenue or net_income, dated in the
\* right-closed 395-day window that ends at o's report_date
Backing(o) ==
    {q \in InRows : /\ q["ticker"] = o["ticker"]
                    /\ q["revenue"] # NULL \/ q["net_income"] # NULL
                    /\ o["report_date"] - 395 < q["report_date"]
                    /\ q["report_date"] <= o["report_date"]}

\* C4: every row of the result is backed by at least 4 quarterly rows of its
\* ticker that have revenue or net_income and lie in the right-closed 395-day
\* window ending at its report_date.
Thm_C4 == TtmDone => \A o \in OutRows : Cardinality(Backing(o)) >= 4

\* an emitted row with exactly 4 backing rows while an older filing of the
\* ticker lies just outside the window
Wit_C4 ==
    /\ TtmDone
    /\ \E o \in OutRows :
         /\ Cardinality(Backing(o)) = 4
         /\ \E q \in InRows : /\ q["ticker"] = o["ticker"]
                              /\ q["revenue"] # NULL
                              /\ q["report_date"] = o["report_date"] - 395

RECURSIVE SumOver(_, _)
SumOver(S, c) ==
    IF S = {} THEN Num(0)
    ELSE LET q == CHOOSE q \in S : TRUE
         IN  IF q[c] = NULL THEN SumOver(S \ {q}, c)
             ELSE RatAdd(q[c], SumOver(S \ {q}, c))

\* the (at most) 4 rows of R with the greatest report_date
MostRecent4(R) ==
    {q \in R : Cardinality({p \in R : p["report_date"] > q["report_date"]}) < 4}

FilingsUpTo(o) ==
    {q \in InRows : q["ticker"] = o["ticker"] /\ q["report_date"] <= o["report_date"]}

PnLFilingsUpTo(o) ==
    {q \in FilingsUpTo(o) : q["revenue"] # NULL \/ q["net_income"] # NULL}

FlowCols == flow_metrics \cap ttm_in.cols

\* C5 as stated: every flow value of the result is the sum over the 4 most
\* recent quarterly filings of the ticker up to the row's report_date.
Orig_C5 ==
    TtmDone => \A o \in OutRows : \A c \in FlowCols :
                 o[TtmName(c)] = SumOver(MostRecent4(FilingsUpTo(o)), c)

\* C5 as amended: every flow value of the result is the sum, a missing value
\* counting as 0, over the 4 most recent quarterly filings of the ticker that
\* have revenue or net_income, up to and including the row's report_date.
Thm_C5 ==
    TtmDone => \A o \in OutRows : \A c \in FlowCols :
                 o[TtmName(c)] = SumOver(MostRecent4(PnLFilingsUpTo(o)), c)

\* an emitted row whose window holds 5 filings, one of the last 4 without revenue
Wit_C5 ==
    /\ TtmDone
    /\ \E o \in OutRows :
         /\ Cardinality(Backing(o)) = 5
         /\ \E q \in MostRecent4(PnLFilingsUpTo(o)) : q["revenue"] = NULL
         /\ o["revenue_ttm"] # NULL /\ o["revenue_ttm"] # Num(0)

PointCols == point_metrics \cap ttm_in.cols

\* C6: every point value of the result is the value the field has in the
\* quarterly row of the same ticker and report_date.
Thm_C6 ==
    TtmDone => \A o \in OutRows : \A c \in PointCols :
                 \E q \in InRows : /\ q["ticker"] = o["ticker"]
                                   /\ q["report_date"] = o["report_date"]
                                   /\ o[TtmName(c)] = q[c]

\* an emitted row whose own filing lacks a point field that older filings of
\* the window have
Wit_C6 ==
    /\ TtmDone
    /\ \E o \in OutRows :
         /\ o["diluted_average_shares_ttm"] = NULL
         /\ \E q \in Backing(o) : q["diluted_average_shares"] # NULL

\* C7 as stated: the call returns a table for every quarterly input, also one
\* that lacks a column.
Orig_C7 == pc = "ttm_done" => ttm_out.status = "ok"

-----------------------------------------------------------------------------
(* Properties of the FX engine *)

ConvertedTable == pc = "fx_done" /\ fx_call.op = "convert_to_target"

FxInRows == {fx_call.df.rows[i] : i \in 1..Len(fx_call.df.rows)}
FxOutRows == {fx_out.rows[i] : i \in 1..Len(fx_out.rows)}

\* the rates of currency cur dated on or before d
RatesUpTo(cur, d) ==
    {fx_rates[cur][i] : i \in {j \in 1..Len(fx_rates[cur]) : fx_rates[cur][j]["date"] <= d}}

\* the one with the greatest date
RateAsOf(cur, d) ==
    (CHOOSE x \in RatesUpTo(cur, d) : \A y \in RatesUpTo(cur, d) : y["date"] <= x["date"])["rate"]

Covered(r) ==
    /\ r["currency"] \in DOMAIN fx_rates
    /\ RatesUpTo(r["currency"], r["date"]) # {}

\* C9: every row in a supported foreign currency with a loaded rate series is
\* returned with close_EUR = close / r, r being the rate with the greatest
\* date on or before the row's date.
Thm_C9 ==
    ConvertedTable =>
      /\ \A r \in FxInRows : Covered(r) =>
           \E o \in FxOutRows :
              /\ \A c \in fx_call.df.cols : o[c] = r[c]
              /\ o["close_EUR"] = RatDiv(r["close"], RateAsOf(r["currency"], r["date"]))
      /\ \A o \in FxOutRows : Covered(o) =>
              o["close_EUR"] = RatDiv(o["close"], RateAsOf(o["currency"], o["date"]))

\* a USD row converted with the later of two different rates
Wit_C9 ==
    /\ ConvertedTable
    /\ \E o \in FxOutRows :
         /\ o["currency"] = "USD" /\ Covered(o)
         /\ Cardinality({x["rate"] : x \in RatesUpTo("USD", o["date"])}) = 2
         /\ o["close_EUR"] # o["close"] /\ o["close_EUR"] # NULL

\* C10: a row in the target currency is returned with close_EUR = close, and
\* convert_amount of an amount in the target currency returns the amount.
Thm_C10 ==
    /\ ConvertedTable =>
         /\ \A r \in FxInRows : r["currency"] = target_currency =>
              \E o \in FxOutRows : /\ \A c \in fx_call.df.cols : o[c] = r[c]
                                   /\ o["close_EUR"] = r["close"]
         /\ \A o \in FxOutRows : o["currency"] = target_currency =>
              o["close_EUR"] = o["close"]
    /\ (pc = "fx_done" /\ fx_call.op = "convert_amount"
        /\ fx_call.source_currency = target_currency) =>
         fx_out.value = fx_call.amount

\* a EUR row returned next to a converted USD row
Wit_C10 ==
    /\ ConvertedTable
    /\ \E o \in FxOutRows : o["currency"] = "EUR" /\ o["close_EUR"] = Num(100)
    /\ \E o \in FxOutRows : o["currency"] = "USD" /\ IsFinite(o["close_EUR"])
                            /\ o["close_EUR"] # Num(100)

-----------------------------------------------------------------------------
(* Properties of calculate_valuation_metrics *)

ValDone == pc = "val_done" /\ val_out.status = "ok"

ValPriceRows == {val_in.df_prices.rows[i] : i \in 1..Len(val_in.df_prices.rows)}
ValOutRows == {val_out.rows[i] : i \in 1..Len(val_out.rows)}
AnnualRows == {val_in.df_annual.rows[i] : i \in 1..Len(val_in.df_annual.rows)}

\* the TTM records of the quarterly data handed over
TtmRecords ==
    IF val_in.df_quarterly.status = "none" THEN {}
    ELSE LET t == calculate_ttm_history(_ensure_schema(val_in.df_quarterly, QuarterlyRequired))
         IN  {t.rows[i] : i \in 1..Len(t.rows)}

\* the reports of R of ticker t dated on or before day d, and the latest one
OnOrBefore(R, t, d) == {a \in R : a["ticker"] = t /\ a["report_date"] <= d}
Latest(R) == CHOOSE a \in R : \A b \in R : b["report_date"] <= a["report_date"]

\* C1: every price row is returned with the annual fields (and the TTM
\* fields) of the report of its own ticker with the greatest report_date on
\* or before its date, and with null fields when the ticker has no such report.
Thm_C1 ==
    ValDone =>
      /\ \A p \in ValPriceRows :
           \E o \in ValOutRows : o["ticker"] = p["ticker"] /\ o["date"] = p["date"]
      /\ \A o \in ValOutRows :
           LET R == OnOrBefore(AnnualRows, o["ticker"], o["date"])
               T == OnOrBefore(TtmRecords, o["ticker"], o["date"])
           IN  /\ IF R = {}
                  THEN /\ o["report_date"] = NULL /\ o["eps_annual"] = NULL
                       /\ o["revenue_annual"] = NULL /\ o["fcf_annual"] = NULL
                       /\ o["shares_annual"] = NULL /\ o["dividend_annual"] = NULL
                  ELSE /\ o["report_date"] = <<Latest(R)["report_date"]>>
                       /\ o["eps_annual"] = Latest(R)["diluted_eps"]
                       /\ o["revenue_annual"] = Latest(R)["revenue"]
                       /\ o["fcf_annual"] = Latest(R)["free_cash_flow"]
               /\ IF T = {}
                  THEN /\ o["report_date_ttm"] = NULL /\ o["eps_ttm"] = NULL
                       /\ o["revenue_ttm"] = NULL /\ o["fcf_ttm"] = NULL
                  ELSE /\ o["report_date_ttm"] = <<Latest(T)["report_date"]>>
                       /\ o["eps_ttm"] = Latest(T)["diluted_eps_ttm"]
                       /\ o["revenue_ttm"] = Latest(T)["revenue_ttm"]

\* a row of A on a report day that has the report of that day although a
\* later report of A exists, next to a row of B.L with null fields although A
\* has reports before its day
Wit_C1 ==
    /\ ValDone
    /\ \E o \in ValOutRows : /\ o["ticker"] = "A" /\ o["date"] = 300
                             /\ o["report_date"] = <<300>>
    /\ \E a \in AnnualRows : a["ticker"] = "A" /\ a["report_date"] > 400
    /\ \E a \in AnnualRows : a["ticker"] = "B.L" /\ a["report_date"] > 400
    /\ \E o \in ValOutRows : /\ o["ticker"] = "B.L" /\ o["date"] = 400
                             /\ o["report_date"] = NULL /\ o["eps_annual"] = NULL

\* C2 as stated: a price row with an annual report and a TTM record on or
\* before its date is returned with valuation_source = "TTM" and
\* pe_ratio = close / eps_ttm.
Orig_C2 ==
    pc = "val_done" =>
      \A p \in ValPriceRows :
         LET R == OnOrBefore(AnnualRows, p["ticker"], p["date"])
             T == OnOrBefore(TtmRecords, p["ticker"], p["date"])
         IN  (R # {} /\ T # {}) =>
               /\ val_out.status = "ok"
               /\ \E o \in ValOutRows :
                    /\ o["ticker"] = p["ticker"] /\ o["date"] = p["date"]
                    /\ o["valuation_source"] = "TTM"
                    /\ o["pe_ratio"] = RatDiv(o["close"], Latest(T)["diluted_eps_ttm"])

\* C3 as stated: without a TTM record for a price row (quarterly data not
\* supplied, empty, or yielding none) the call does not raise, and a row
\* whose latest annual report on or before its date has an eps is returned
\* with that eps and valuation_source = "Annual".
Orig_C3 ==
    pc = "val_done" =>
      \A p \in ValPriceRows :
         LET R == OnOrBefore(AnnualRows, p["ticker"], p["date"])
             T == OnOrBefore(TtmRecords, p["ticker"], p["date"])
         IN  T = {} =>
               /\ val_out.status = "ok"
               /\ (R # {} /\ Latest(R)["diluted_eps"] # NULL) =>
                    \E o \in ValOutRows :
                       /\ o["ticker"] = p["ticker"] /\ o["date"] = p["date"]
                       /\ o["eps_annual"] = Latest(R)["diluted_eps"]
                       /\ o["valuation_source"] = "Annual"
                       /\ o["pe_ratio"] = RatDiv(o["close"], Latest(R)["diluted_eps"])

\* C8: a returned row with a metric_date has data_lag_days = date -
\* metric_date, and that is not negative.
Thm_C8 ==
    ValDone =>
      \A o \in ValOutRows :
         o["metric_date"] # NULL =>
           /\ o["data_lag_days"] = <<o["date"] - o["metric_date"][1]>>
           /\ o["data_lag_days"][1] >= 0

\* a row with a positive lag whose ticker also has a report after its date,
\* and a row with lag 0
Wit_C8 ==
    /\ ValDone
    /\ \E o \in ValOutRows :
         /\ o["metric_date"] # NULL /\ o["data_lag_days"][1] > 0
         /\ \E a \in AnnualRows : a["ticker"] = o["ticker"] /\ a["report_date"] > o["date"]
    /\ \E o \in ValOutRows : o["data_lag_days"] = <<0>>



\* C29: a returned row whose valuation_source is "TTM" has the report_date of
\* the latest TTM record of its ticker on or before its date as metric_date,
\* and a row whose valuation_source is "Annual" has an eps from the latest
\* annual report on or before its date and that report's report_date as
\* metric_date; data_lag_days counts the days from metric_date to the price.
Thm_C29 ==
    ValDone =>
      \A o \in ValOutRows :
         LET R == OnOrBefore(AnnualRows, o["ticker"], o["date"])
             T == OnOrBefore(TtmRecords, o["ticker"], o["date"])
         IN  /\ o["valuation_source"] = "TTM" =>
                  /\ T # {}
                  /\ o["metric_date"] = <<Latest(T)["report_date"]>>
                  /\ o["data_lag_days"] = <<o["date"] - Latest(T)["report_date"]>>
             /\ o["valuation_source"] = "Annual" =>
                  /\ R # {}
                  /\ Latest(R)["diluted_eps"] # NULL
                  /\ o["metric_date"] = <<Latest(R)["report_date"]>>
                  /\ o["data_lag_days"] = <<o["date"] - Latest(R)["report_date"]>>

\* C29 witness: a row valued from an annual report published before its date,
\* next to a row of the same call that has no eps and no metric_date
Wit_C29 ==
    /\ ValDone
    /\ \E o \in ValOutRows : /\ o["valuation_source"] = "Annual"
                             /\ o["metric_date"] # NULL
                             /\ o["data_lag_days"] # NULL /\ o["data_lag_days"][1] > 0
    /\ \E o \in ValOutRows : /\ o["valuation_source"] = "N/A"
                             /\ o["metric_date"] = NULL

-----------------------------------------------------------------------------
(* Properties of the FX engine: coverage, row count, convert_amount, target *)

\* C11: every returned row whose currency has no usable rate (no loaded
\* series for it, or no rate dated on or before the row's date) carries
\* close_EUR = close.
Orig_C11 ==
    ConvertedTable =>
      \A o \in FxOutRows :
         (o["currency"] # target_currency /\ ~ Covered(o)) => o["close_EUR"] = o["close"]

\* C12: convert_to_target returns as many rows as it was given, in ascending
\* date order.
Orig_C12 ==
    ConvertedTable =>
      /\ Len(fx_out.rows) = Len(fx_call.df.rows)
      /\ \A i \in 1..Len(fx_out.rows) - 1 :
            fx_out.rows[i]["date"] <= fx_out.rows[i + 1]["date"]

ConvertedAmount == pc = "fx_done" /\ fx_call.op = "convert_amount"

\* C13: convert_amount of an amount in a non-target currency returns
\* amount / r, r being the rate of that currency with the greatest date on or
\* before the given date, and the amount itself when the currency has no
\* series or no rate on or before the date.
Thm_C13 ==
    (ConvertedAmount /\ fx_call.source_currency # target_currency) =>
      fx_out.value =
        IF /\ fx_call.source_currency \in DOMAIN fx_rates
           /\ RatesUpTo(fx_call.source_currency, fx_call.date) # {}
        THEN RatDiv(fx_call.amount, RateAsOf(fx_call.source_currency, fx_call.date))
        ELSE fx_call.amount

\* rates 1.10 on day 1 and 1.05 on day 32: 100 USD on day 15 is 100 / 1.10
Wit_C13 ==
    /\ ConvertedAmount
    /\ fx_call.source_currency = "USD" /\ fx_call.date = 15
    /\ "USD" \in DOMAIN fx_rates
    /\ fx_rates["USD"] = <<[date |-> 1, rate |-> Rat(11, 10)],
                           [date |-> 32, rate |-> Rat(21, 20)]>>
    /\ fx_out.value = Rat(1000, 11)

\* C14: an engine whose target currency is not EUR fails at construction and
\* never serves a conversion.
Thm_C14 ==
    target_currency # "EUR" => (pc = "fx_failed" /\ fx_rates = NoRates /\ fx_out = Idle)

\* the construction with target USD has raised
Wit_C14 == pc = "fx_failed" /\ target_currency = "USD" /\ fx_call.op = "convert_amount"


-----------------------------------------------------------------------------
(* Properties of the portfolio valuation *)

PfBuilt == pc \in {"pf", "pf_rejected", "pf_done"}
PfDone == pc = "pf_done"
HistoryRows == {history.rows[i] : i \in 1..Len(history.rows)}
PfPriceRows == {pf_prices.rows[i] : i \in 1..Len(pf_prices.rows)}

\* the weighted configurations that pass start_date and initial_capital and
\* give every position a weight above 0
PositiveWeights ==
    /\ pf_cfg.type = WEIGHTED
    /\ pf_cfg.given = {"start_date", "initial_capital"}
    /\ pf_cfg.start_date # NULL /\ pf_cfg.initial_capital # NULL
    /\ pf_cfg.positions # <<>>
    /\ \A i \in 1..Len(pf_cfg.positions) : RatLt(Num(0), pf_cfg.positions[i].weight)

\* C15: a weighted portfolio whose weights are declared at any positive
\* scale is accepted, and its valuation carries the weights w_i / sum(w).
Orig_C15 ==
    (PfBuilt /\ PositiveWeights) =>
      /\ portfolio.status = "ok"
      /\ (PfDone /\ history.status = "ok") =>
            \A o \in HistoryRows :
               \E i \in 1..Len(pf_cfg.positions) :
                  /\ pf_cfg.positions[i].ticker = o["ticker"]
                  /\ o["weight"] = RatDiv(pf_cfg.positions[i].weight,
                                          SumWeights(pf_cfg.positions))

WeightedDone ==
    /\ PfDone /\ portfolio.type = WEIGHTED
    /\ history.status = "ok" /\ ~ is_empty(history)

\* the price rows of ticker t that survive the start_date floor
RowsFrom(t) ==
    {r \in PfPriceRows : r["ticker"] = t /\ r["date"] >= portfolio.start_date[1]}

\* the entry price of ticker t: the close of its first price row on or after
\* start_date, in the target currency when an FX engine is passed; null when
\* there is none
EntryPrice(t) ==
    IF RowsFrom(t) = {} THEN NULL
    ELSE LET r0 == CHOOSE r \in RowsFrom(t) : \A q \in RowsFrom(t) : r["date"] <= q["date"]
         IN  IF ~ pf_fx.given THEN r0["close"]
             ELSE LET conv == convert_to_target(pf_fx.target_currency, pf_fx.fx_rates,
                                                Frame(PfPriceCols, <<r0>>),
                                                "close", "currency")
                  IN  IF conv.rows = <<>> THEN NULL
                      ELSE conv.rows[1]["close_" \o pf_fx.target_currency]

\* capital as the valuation takes it
Capital == IF portfolio.initial_capital = NULL THEN Num(0) ELSE portfolio.initial_capital

RECURSIVE SumSeq(_)
SumSeq(vs) == IF vs = <<>> THEN Num(0) ELSE RatAdd(Head(vs), SumSeq(Tail(vs)))

\* implied_shares * entry_price of the positions of ticker t, read off the
\* returned rows of t on one date (one row per position of t)
EntryValues(t) ==
    LET rows == SelectSeq(history.rows, LAMBDA o : o["ticker"] = t)
        d0 == IF rows = <<>> THEN 0 ELSE rows[1]["date"]
        at == SelectSeq(rows, LAMBDA o : o["date"] = d0)
    IN  [k \in 1..Len(at) |-> RatMul(at[k]["implied_shares"], EntryPrice(t))]

RECURSIVE EntrySum(_)
EntrySum(T) ==
    IF T = {} THEN Num(0)
    ELSE LET t == CHOOSE x \in T : TRUE
         IN  RatAdd(SumSeq(EntryValues(t)), EntrySum(T \ {t}))

AllEntered == \A t \in tickers(portfolio) : IsFinite(EntryPrice(t))

Orig_C17 ==
    (PfDone /\ pf_cfg.type = WEIGHTED
       /\ (portfolio.start_date = NULL \/ portfolio.initial_capital = NULL))
      => ~ (history.status = "ok" /\ ~ is_empty(history))

\* no price row is left after the ticker filter and the start_date floor
NothingSurvives ==
    \A r \in PfPriceRows :
       \/ r["ticker"] \notin tickers(portfolio)
       \/ (portfolio.start_date # NULL /\ r["date"] < portfolio.start_date[1])

\* C18: when no price row survives the ticker filter and the start_date
\* floor, calculate_portfolio_history returns an empty table and does not
\* raise (taken over the portfolios that have their start_date and
\* initial_capital when weighted).
Orig_C18 ==
    (PfDone /\ NothingSurvives
       /\ (portfolio.type = WEIGHTED =>
              portfolio.start_date # NULL /\ portfolio.initial_capital # NULL))
      => (history.status = "ok" /\ is_empty(history))

AbsoluteDone == PfDone /\ portfolio.type = ABSOLUTE

\* the price rows on or after start_date of the tickers no position names
Unlisted ==
    {r \in PfPriceRows :
        /\ r["ticker"] \notin tickers(portfolio)
        /\ (portfolio.start_date # NULL => r["date"] >= portfolio.start_date[1])}

\* C19 as stated: in an absolute valuation every price row of a ticker
\* absent from the position list is returned with position_value = 0.
Orig_C19 ==
    AbsoluteDone =>
      /\ history.status = "ok"
      /\ \A r \in Unlisted :
            \E o \in HistoryRows : /\ o["ticker"] = r["ticker"] /\ o["date"] = r["date"]
                                   /\ o["position_value"] = Num(0)

\* C19: an absolute valuation does not raise, and a ticker absent from the
\* position list has no row in the result; every returned row is valued at
\* the shares of its position times the close.
Thm_C19 ==
    AbsoluteDone =>
      /\ history.status = "ok"
      /\ \A o \in HistoryRows :
            /\ o["ticker"] \in tickers(portfolio)
            /\ RatLt(Num(0), o["shares"])
            /\ \E r \in PfPriceRows :
                  /\ r["ticker"] = o["ticker"] /\ r["date"] = o["date"]
                  /\ o["position_value"] = RatMul(o["shares"], r["close"])

\* A is held, B.L is priced but not held: only rows of A come back
Wit_C19 ==
    /\ AbsoluteDone
    /\ tickers(portfolio) = {"A"}
    /\ Unlisted # {}
    /\ HistoryRows # {}
    /\ \A o \in HistoryRows : o["ticker"] = "A" /\ o["position_value"] # Num(0)



\* the close of the price row an output row was computed from
CloseOf(o) ==
    (CHOOSE r \in PfPriceRows : r["ticker"] = o["ticker"] /\ r["date"] = o["date"])["close"]

\* the dates on which ticker t appears in the returned history
OutputDates(t) == {o["date"] : o \in {x \in HistoryRows : x["ticker"] = t}}

\* C26: in a weighted history every holding keeps its implied_shares on every
\* output date of its ticker, the shares are the holding's allocation divided
\* by the ticker's entry price, and position_value on each date is
\* implied_shares times the close of that date.
Thm_C26 ==
    WeightedDone =>
      \A o \in HistoryRows :
         /\ o["position_value"] = RatMul(o["implied_shares"], CloseOf(o))
         /\ o["implied_shares"] =
               RatDiv(RatMul(o["weight"], Capital), EntryPrice(o["ticker"]))
         /\ \A d \in OutputDates(o["ticker"]) :
               \E x \in HistoryRows :
                  /\ x["ticker"] = o["ticker"] /\ x["date"] = d
                  /\ x["weight"] = o["weight"]
                  /\ x["implied_shares"] = o["implied_shares"]

\* C26 witness: A, entered at 50, is held with the same non-zero number of
\* shares on day 10 and on day 20, worth 50 and 60 a share
Wit_C26 ==
    /\ WeightedDone
    /\ \E o1, o2 \in HistoryRows :
          /\ o1["ticker"] = "A" /\ o2["ticker"] = "A"
          /\ o1["date"] = 10 /\ o2["date"] = 20
          /\ IsFinite(o1["implied_shares"]) /\ o1["implied_shares"] # Num(0)
          /\ o2["implied_shares"] = o1["implied_shares"]
          /\ o1["position_value"] = RatMul(o1["implied_shares"], Num(50))
          /\ o2["position_value"] = RatMul(o1["implied_shares"], Num(60))


\* the input price rows of the portfolio's tickers on or after start_date
Surviving ==
    {r \in PfPriceRows :
        /\ r["ticker"] \in tickers(portfolio)
        /\ (portfolio.start_date # NULL => r["date"] >= portfolio.start_date[1])}

\* the positions in history.rows of the output rows computed from price row r
RowsFor(r) ==
    {i \in 1..Len(history.rows) :
        history.rows[i]["ticker"] = r["ticker"] /\ history.rows[i]["date"] = r["date"]}

\* C30 as stated: a valuation that returns rows (of a portfolio that has its
\* initial_capital when weighted) returns exactly one row per surviving price
\* row, for every portfolio type and also when a ticker is named by more than
\* one position.
Orig_C30 ==
    (PfDone /\ history.status = "ok" /\ ~ is_empty(history)
       /\ (portfolio.type = WEIGHTED => portfolio.initial_capital # NULL)) =>
       /\ \A r \in Surviving : Cardinality(RowsFor(r)) = 1
       /\ Len(history.rows) = Cardinality(Surviving)

-----------------------------------------------------------------------------
(* Properties of calculate_fundamental_metrics *)

FundDone == pc = "fund_done" /\ fund_out.status = "ok" /\ ~ is_empty(fund_out)

FundOutRows == {fund_out.rows[i] : i \in 1..Len(fund_out.rows)}

\* C20: roce = ebit / capital_employed where both are non-null and
\* capital_employed is not 0, and roce is null on every other row.
Orig_C20 ==
    FundDone =>
      \A o \in FundOutRows :
         o["roce"] = IF /\ o["ebit"] # NULL /\ o["capital_employed"] # NULL
                        /\ o["capital_employed"] # Num(0)
                     THEN RatDiv(o["ebit"], o["capital_employed"])
                     ELSE NULL


FundRatios == {"net_debt_to_ebit", "interest_coverage", "net_profit_margin",
               "gross_margin", "ebit_margin", "cash_conversion_ratio"}

\* C21: every ratio of a returned row is null or finite; a zero divisor
\* gives null, never an infinite or NaN ratio.
Orig_C21 ==
    FundDone =>
      \A o \in FundOutRows : \A c \in FundRatios : o[c] = NULL \/ IsFinite(o[c])

\* C22: calculate_fundamental_metrics does not raise, whichever columns the
\* table lacks.
Orig_C22 == pc = "fund_done" => fund_out.status = "ok"

\* C27: on every returned row with a non-zero ebit, net_debt_to_ebit is the
\* row's net_debt divided by ebit.
Orig_C27 ==
    FundDone =>
      \A o \in FundOutRows :
         (o["ebit"] # NULL /\ o["ebit"] # Num(0)) =>
            o["net_debt_to_ebit"] = RatDiv(o["net_debt"], o["ebit"])


\* the pence correction applies to a row in pence of a ticker with the LSE
\* suffix
PenceOfLse(r) == r["currency"] = "GBp" /\ r["ticker"] \in LseTickers

\* C23: a row is changed exactly when its currency is pence and its ticker
\* carries the LSE suffix: cash_dividends_paid is divided by 100 and the
\* currency rewritten; every other row keeps its value and its currency.
Orig_C23 ==
    (FundDone /\ {"currency", "cash_dividends_paid"} \subseteq fund_in.cols) =>
      \A i \in 1..Len(fund_in.rows) :
         LET r == fund_in.rows[i]
             o == fund_out.rows[i]
         IN  IF PenceOfLse(r)
             THEN /\ o["cash_dividends_paid"] =
                        RatDiv(r["cash_dividends_paid"], Num(PenceDivisor))
                  /\ o["currency"] = "GBP"
             ELSE /\ o["cash_dividends_paid"] = r["cash_dividends_paid"]
                  /\ o["currency"] = r["currency"]


-----------------------------------------------------------------------------
(* Properties of calculate_fair_value_history *)

FairDone ==
    /\ pc = "fair_done" /\ fair_out.status = "ok"
    /\ "pe_ratio" \in fair_in.cols /\ ~ is_empty(fair_in)

FairMaxDate ==
    CHOOSE d \in {fair_in.rows[i]["date"] : i \in 1..Len(fair_in.rows)} :
       \A i \in 1..Len(fair_in.rows) : fair_in.rows[i]["date"] <= d

\* the rows of ticker t that count: inside the trailing window, with
\* 0 < pe_ratio < 250
Contributing(t) ==
    {i \in 1..Len(fair_in.rows) :
        /\ fair_in.rows[i]["ticker"] = t
        /\ fair_in.rows[i]["date"] >= FairMaxDate - FairYears * YearDays
        /\ IsFinite(fair_in.rows[i]["pe_ratio"])
        /\ RatLt(Num(0), fair_in.rows[i]["pe_ratio"])
        /\ RatLt(fair_in.rows[i]["pe_ratio"], Num(PeCap))}

\* the k-th smallest pe_ratio among the rows I
KthPe(I, k) ==
    LET pe(i) == fair_in.rows[i]["pe_ratio"]
        x == CHOOSE i \in I :
                /\ Cardinality({j \in I : RatLt(pe(j), pe(i))}) <= k - 1
                /\ Cardinality({j \in I : RatLeq(pe(j), pe(i))}) >= k
    IN  pe(x)

MedianPe(I) ==
    LET n == Cardinality(I)
    IN  IF n = 0 THEN NULL
        ELSE IF n % 2 = 1 THEN KthPe(I, (n + 1) \div 2)
        ELSE RatDiv(RatAdd(KthPe(I, n \div 2), KthPe(I, n \div 2 + 1)), Num(2))

\* C24: median_pe of a row is the median of pe_ratio over the rows of its
\* ticker inside the trailing window with 0 < pe_ratio < 250 (null when
\* there is none), and fair_value is (close / pe_ratio) * median_pe.
Thm_C24 ==
    FairDone =>
      /\ Len(fair_out.rows) = Len(fair_in.rows)
      /\ \A i \in 1..Len(fair_in.rows) :
            LET r == fair_in.rows[i]
                o == fair_out.rows[i]
            IN  /\ o["ticker"] = r["ticker"] /\ o["date"] = r["date"]
                /\ o["median_pe"] = MedianPe(Contributing(r["ticker"]))
                /\ o["fair_value"] = RatMul(RatDiv(r["close"], r["pe_ratio"]),
                                            o["median_pe"])

\* A has a row inside the window with a pe_ratio of 250 or more, or of 0 or
\* less, next to contributing rows, and a median of two different values
Wit_C24 ==
    /\ FairDone
    /\ Cardinality(Contributing("A")) = 2
    /\ \E i \in 1..Len(fair_in.rows) :
          /\ fair_in.rows[i]["ticker"] = "A" /\ i \notin Contributing("A")
          /\ IsFinite(fair_in.rows[i]["pe_ratio"])
          /\ fair_in.rows[i]["pe_ratio"] # Num(0)
    /\ \E o \in {fair_out.rows[i] : i \in 1..Len(fair_out.rows)} :
          /\ o["ticker"] = "A" /\ o["median_pe"] = Num(15)
          /\ o["pe_ratio"] = Num(10) /\ IsFinite(o["fair_value"])


-----------------------------------------------------------------------------
(* Properties of a session of engine calls *)

SessionOps == {p[1].op : p \in seen}

-----------------------------------------------------------------------------
(* Properties of run_price_update *)

StoredDates(storage, t) == {storage[t].rows[i]["date"] : i \in 1..Len(storage[t].rows)}

====
